---- MODULE Spec2Model ----
(***************************************************************************)
(* Model of the document-chronology pipeline (bennet-dev/document-         *)
(* chronology): date matching and parsing, context classification, date of *)
(* service selection, forward inheritance, clustering and duplicate        *)
(* grouping.  Each component is a pure function or a request handler; it   *)
(* is checked under its own specification, whose Init draws the inputs     *)
(* from bounded sets and whose action applies the function or handler.     *)
(***************************************************************************)
EXTENDS Integers, Sequences, FiniteSets, TLC

VARIABLES
    pc,          \* "call" before the operation under check has run, "return" after
    pages,       \* applyInheritance: the argument (PageResult[] sorted by page number)
    result,      \* applyInheritance: the returned PageResult[]
    request,     \* POST /api/cluster: the pages of the request body
    response,    \* POST /api/cluster: the JSON response
    before,      \* classifyByContext: the text before the date
    after,       \* classifyByContext: the text after the date
    classified,  \* classifyByContext: the returned {classification, confidence}
    dates,       \* selectDateOfService: the argument (ExtractedDate[])
    selected,    \* selectDateOfService: the returned {date, confident} | null
    tz,          \* the process's time zone: hours east of UTC
    text,        \* getDatesWithContext: the argument, as a sequence of tokens
    written,     \* the dates the text was written from, one per date chunk
    results,     \* getDatesWithContext: the returned ExtractedDate[]
    parsedDates, \* getDatesWithContext: the local variable parsed of each push
    dbPages,     \* GET /api/duplicates: the Page rows of the document
    duplicates,  \* GET /api/duplicates: the DuplicatesResponse
    classifyRequest,  \* POST /api/classify: the request body {documentId, pages}
    llmOutputs,       \* what model.generateContent does for each requested page
    faults,           \* the failures of the environment during the request
    analyzed,         \* ids of the Page rows with llmAnalyzed = true
    dateEvents,       \* the DateEvent rows
    classifyResponse, \* POST /api/classify: the JSON response
    processRequest,   \* POST /api/process: the request body {filename, documentId}
    ocrFiles,         \* POST /api/process: the JSON files the OCR job writes
    processResponse,  \* POST /api/process: the JSON response
    exported,         \* GET /api/export: the response
    rawText,          \* normalizeText, computeSimHash: the argument
    normalizedOnce,   \* normalizeText: the returned string
    normalizedTwice,  \* normalizeText: what it returns for its own result
    fingerprint,      \* computeSimHash: the returned fingerprint
    bucket,           \* the files of the bucket under outputPrefix
    procPc,           \* POST /api/process: where each running request stands
    procListed,       \* the file names each request got from getFiles
    procRead,         \* the files each request has downloaded
    processingStatus,  \* the upload page: the store's processingStatus
    uploadPc,          \* processDocument: the await the run stands at
    uploadSteps,       \* processDocument: how each request of the run ended
    eventsAtStart,     \* the DateEvent rows when each run of processDocument began
    eventTable,        \* the DateEvent rows the event routes work on
    eventsCreated,     \* the number of DateEvent ids handed out
    contentPatched,    \* for each id handed out: a successful PATCH carried a content field
    eventResponse,     \* the response of the last event request
    batchPages,        \* POST /api/classify: the number of enrichedPages of the running request
    batchPc,           \* POST /api/classify: where the batch loop stands
    batchIndex,        \* the loop variable i of the batch loop
    inFlight,          \* the pages whose generateContent call has started and not settled
    settled,           \* the pages whose classifyPage promise has settled
    batchDone          \* the pages whose results have been pushed

clusterVars == <<pages, result, request, response>>
classifyVars == <<before, after, classified>>
selectVars == <<dates, selected>>
datesVars == <<tz, text, written, results, parsedDates>>
duplicateVars == <<dbPages, duplicates>>
llmVars == <<classifyRequest, llmOutputs, analyzed, dateEvents, classifyResponse>>
processVars == <<faults, processRequest, ocrFiles, processResponse>>
exportVars == <<exported>>
textVars == <<rawText, normalizedOnce, normalizedTwice, fingerprint>>
bucketVars == <<bucket, procPc, procListed, procRead>>
uploadVars == <<processingStatus, uploadPc, uploadSteps, eventsAtStart>>
eventVars == <<eventTable, eventsCreated, contentPatched, eventResponse>>
batchVars == <<batchPages, batchPc, batchIndex, inFlight, settled, batchDone>>
appVars == <<exportVars, textVars, bucketVars, uploadVars, eventVars,
            batchVars>>

\* The variables of appVars outside one of its groups
otherThanExport == <<textVars, bucketVars, uploadVars, eventVars, batchVars>>
otherThanText == <<exportVars, bucketVars, uploadVars, eventVars, batchVars>>
otherThanBucket == <<exportVars, textVars, uploadVars, eventVars, batchVars>>
otherThanUpload == <<exportVars, textVars, bucketVars, eventVars, batchVars>>
otherThanEvents == <<exportVars, textVars, bucketVars, uploadVars, batchVars>>
otherThanBatch == <<exportVars, textVars, bucketVars, uploadVars, eventVars>>

vars == <<pc, clusterVars, classifyVars, selectVars, datesVars, duplicateVars,
          llmVars, processVars, appVars>>

(***************************************************************************)
(* Values                                                                  *)
(***************************************************************************)

\* An ISO date string "YYYY-MM-DD" is the tuple <<year, month, day>>;
\* null (PageResult.dateOfService: string | null) is the empty tuple.
NullDate == <<>>

\* PageResult.inheritedFrom is optional; page numbers are 1-based.
NoPage == 0

DateSource == {"heuristic", "llm", "inherited", "none"}

\* JavaScript truthiness of a dateOfService (string | null).
Truthy(d) == d # NullDate

(***************************************************************************)
(* Calendar arithmetic (days since 1970-01-01, proleptic Gregorian), as    *)
(* computed by the JavaScript Date object.                                 *)
(***************************************************************************)
DaysFromCivil(y, m, d) ==
    LET yy  == IF m <= 2 THEN y - 1 ELSE y
        era == yy \div 400
        yoe == yy - era * 400
        mp  == IF m > 2 THEN m - 3 ELSE m + 9
        doy == (153 * mp + 2) \div 5 + d - 1
        doe == yoe * 365 + yoe \div 4 - yoe \div 100 + doy
    IN  era * 146097 + doe - 719468

CivilFromDays(z0) ==
    LET z   == z0 + 719468
        era == z \div 146097
        doe == z - era * 146097
        yoe == (doe - doe \div 1460 + doe \div 36524 - doe \div 146096) \div 365
        doy == doe - (365 * yoe + yoe \div 4 - yoe \div 100)
        mp  == (5 * doy + 2) \div 153
        d   == doy - (153 * mp + 2) \div 5 + 1
        m   == IF mp < 10 THEN mp + 3 ELSE mp - 9
        y   == yoe + era * 400
    IN  <<IF m <= 2 THEN y + 1 ELSE y, m, d>>

\* new Date("YYYY-MM-DD").getTime(), in days (a date-only ISO string is UTC midnight).
DateGetTime(iso) == DaysFromCivil(iso[1], iso[2], iso[3])

(***************************************************************************)
(* Bounds                                                                  *)
(***************************************************************************)
MaxPages == 3        \* longest page sequence given to applyInheritance
PageStep == 2        \* page numbers of that sequence are PageStep, 2*PageStep, ...
MaxReqPages == 3     \* most pages in one POST /api/cluster request
MaxPageNo == 3       \* page numbers of a request are drawn from 1..MaxPageNo
MaxBeforeItems == 2  \* most words or phrases in the text before a date
MaxAfterItems == 1   \* most words or phrases in the text after a date
MaxDates == 3        \* most ExtractedDates given to selectDateOfService

\* dateOfService values of the inputs
ServiceDates == {<<2024, 1, 5>>, <<2024, 3, 1>>}

\* documentType of the page with number n (each page number its own label)
DocTypeOf(n) == <<"type", n>>

(***************************************************************************)
(* InheritanceEngine: applyInheritance (src/app/api/cluster/route.ts)       *)
(***************************************************************************)

\* route.ts:26
HasOwnDate(page) == Truthy(page.dateOfService) /\ page.dateSource # "none"

\* route.ts:32-37, with inheritedFrom copied from the last dated page
\* instead of set to its page number
InheritFromWrongField(page, lastDatedPage) ==
    [page EXCEPT !.dateOfService = lastDatedPage.dateOfService,
                 !.dateSource = "inherited",
                 !.inheritedFrom = lastDatedPage.inheritedFrom]

\* route.ts:32-37, with the page's dateSource left as it was
InheritFromKeepingSource(page, lastDatedPage) ==
    [page EXCEPT !.dateOfService = lastDatedPage.dateOfService,
                 !.inheritedFrom = lastDatedPage.pageNumber]

\* route.ts:32-37
InheritFrom(page, lastDatedPage) ==
    [page EXCEPT !.dateOfService = lastDatedPage.dateOfService,
                 !.dateSource = "inherited",
                 !.inheritedFrom = lastDatedPage.pageNumber]

\* The loop of route.ts:25-42 from index i on; last is the index of
\* lastDatedPage in ps, 0 while lastDatedPage is null.
RECURSIVE InheritLoop(_, _, _)
InheritLoop(ps, i, last) ==
    IF i > Len(ps) THEN <<>>
    ELSE LET page == ps[i] IN
         IF HasOwnDate(page)
             THEN <<page>> \o InheritLoop(ps, i + 1, i)
         ELSE IF last # 0
             THEN <<InheritFrom(page, ps[last])>> \o InheritLoop(ps, i + 1, last)
         ELSE <<page>> \o InheritLoop(ps, i + 1, last)

applyInheritance(ps) == InheritLoop(ps, 1, 0)

(***************************************************************************)
(* ClusterBuilder: buildClusters and POST (src/app/api/cluster/route.ts)    *)
(***************************************************************************)

\* route.ts:105-107, [...pages].sort((a, b) => a.pageNumber - b.pageNumber):
\* Array.prototype.sort is stable; insertion of x after every element whose
\* page number is not greater.
RECURSIVE InsertByPageNumber(_, _)
InsertByPageNumber(sorted, x) ==
    IF sorted = <<>> THEN <<x>>
    ELSE IF Head(sorted).pageNumber - x.pageNumber > 0
         THEN <<x>> \o sorted
         ELSE <<Head(sorted)>> \o InsertByPageNumber(Tail(sorted), x)

\* route.ts:105-107 with the pages left in the order of the request
RequestOrder(ps) == ps

RECURSIVE SortByPageNumber(_)
SortByPageNumber(ps) ==
    IF ps = <<>> THEN <<>>
    ELSE InsertByPageNumber(SortByPageNumber(SubSeq(ps, 1, Len(ps) - 1)), ps[Len(ps)])

\* route.ts:59-69, one iteration on the Map (kept as the sequence of its
\* entries in insertion order) for a page with a date
ClusterMapPut(clusterMap, page) ==
    IF \E k \in 1..Len(clusterMap) : clusterMap[k].dateOfService = page.dateOfService
    THEN [k \in 1..Len(clusterMap) |->
            IF clusterMap[k].dateOfService = page.dateOfService
            THEN [clusterMap[k] EXCEPT !.pages = Append(@, page.pageNumber)]
            ELSE clusterMap[k]]
    ELSE Append(clusterMap,
                [dateOfService |-> page.dateOfService,
                 pages         |-> <<page.pageNumber>>,
                 primaryPage   |-> page.pageNumber,
                 documentType  |-> page.documentType])

\* route.ts:56-70
RECURSIVE ClusterMapOf(_, _, _)
ClusterMapOf(ps, i, clusterMap) ==
    IF i > Len(ps) THEN clusterMap
    ELSE IF ~Truthy(ps[i].dateOfService)
         THEN ClusterMapOf(ps, i + 1, clusterMap)
         ELSE ClusterMapOf(ps, i + 1, ClusterMapPut(clusterMap, ps[i]))

\* route.ts:74-82
ClusterOf(data) ==
    [id            |-> <<"cluster", data.dateOfService, data.primaryPage>>,
     dateOfService |-> data.dateOfService,
     pages         |-> data.pages,
     primaryPage   |-> data.primaryPage,
     documentType  |-> data.documentType]

\* route.ts:85-88, clusters.sort by new Date(dateOfService).getTime()
RECURSIVE InsertByDate(_, _)
InsertByDate(sorted, x) ==
    IF sorted = <<>> THEN <<x>>
    ELSE IF DateGetTime(Head(sorted).dateOfService) - DateGetTime(x.dateOfService) > 0
         THEN <<x>> \o sorted
         ELSE <<Head(sorted)>> \o InsertByDate(Tail(sorted), x)

\* route.ts:85-88 with the clusters left in the order of the Map
MapOrder(cs) == cs

RECURSIVE SortByDate(_)
SortByDate(cs) ==
    IF cs = <<>> THEN <<>>
    ELSE InsertByDate(SortByDate(SubSeq(cs, 1, Len(cs) - 1)), cs[Len(cs)])

\* route.ts:50-91
buildClusters(ps) ==
    LET clusterMap == ClusterMapOf(ps, 1, <<>>)
    IN  SortByDate([k \in 1..Len(clusterMap) |-> ClusterOf(clusterMap[k])])

\* route.ts:116-118, filtering the request's pages as they were before
\* inheritance instead of pagesWithInheritance
UndatedPagesOfRequest(ps) ==
    LET undated == SelectSeq(SortByPageNumber(request), LAMBDA p : ~Truthy(p.dateOfService))
    IN  [k \in 1..Len(undated) |-> undated[k].pageNumber]

\* route.ts:116-118
UndatedPagesOf(ps) ==
    LET undated == SelectSeq(ps, LAMBDA p : ~Truthy(p.dateOfService))
    IN  [k \in 1..Len(undated) |-> undated[k].pageNumber]

\* route.ts:120-145 (stats.pagesWithDates counts extractedDates, which the
\* model of a PageResult does not carry)
ChronologyResultOf(reqPages, pagesWithInheritance) ==
    [pages        |-> pagesWithInheritance,
     clusters     |-> buildClusters(pagesWithInheritance),
     undatedPages |-> UndatedPagesOf(pagesWithInheritance),
     stats        |->
        [totalPages     |-> Len(reqPages),
         pagesWithDOS   |-> Len(SelectSeq(pagesWithInheritance,
                                LAMBDA p : Truthy(p.dateOfService) /\ p.dateSource # "inherited")),
         pagesInherited |-> Len(SelectSeq(pagesWithInheritance,
                                LAMBDA p : p.dateSource = "inherited")),
         llmClassified  |-> Len(SelectSeq(reqPages, LAMBDA p : p.dateSource = "llm"))]]

\* route.ts:93-160
ClusterPOST(reqPages) ==
    IF Len(reqPages) = 0
    THEN [status |-> 400, error |-> "No pages provided"]
    ELSE LET sortedPages == SortByPageNumber(reqPages)
             pagesWithInheritance == applyInheritance(sortedPages)
         IN  [status  |-> 200,
              success |-> TRUE,
              result  |-> ChronologyResultOf(reqPages, pagesWithInheritance)]

(***************************************************************************)
(* Text.  A text is the sequence of its tokens: maximal digit runs, words, *)
(* whitespace runs and punctuation marks.  The regular expressions of      *)
(* findDates.ts are matched token by token.                                *)
(*   k = "num"   : a digit run of w digits with value v                    *)
(*   k = "alpha" : a word or phrase, s its lower-case spelling, w its      *)
(*                 length, v = 1 when the text spells it with capitals     *)
(*   k = "sp"    : a whitespace run                                        *)
(*   k = "sep"   : one of - / .      k = "comma", k = "colon"              *)
(***************************************************************************)
Num(v, w)       == [k |-> "num",   v |-> v, w |-> w, s |-> ""]
Alpha(s, w, up) == [k |-> "alpha", v |-> up, w |-> w, s |-> s]
Sp              == [k |-> "sp",    v |-> 0, w |-> 1, s |-> " "]
Sep(c)          == [k |-> "sep",   v |-> 0, w |-> 1, s |-> c]
Comma           == [k |-> "comma", v |-> 0, w |-> 1, s |-> ","]
Colon           == [k |-> "colon", v |-> 0, w |-> 1, s |-> ":"]
EndOfText       == [k |-> "end",   v |-> 0, w |-> 0, s |-> ""]

\* The token at index i, EndOfText outside the text
Tok(ts, i) == IF i >= 1 /\ i <= Len(ts) THEN ts[i] ELSE EndOfText

\* \w: a token made of word characters
IsWordTok(t) == t.k \in {"num", "alpha"}

\* A word followed by ":" or whitespace, as in /\bdos\b[:\s]/i
WordThenColonOrSpace(ts, word) ==
    \E i \in 1..Len(ts) :
        /\ ts[i].k = "alpha" /\ ts[i].s = word
        /\ Tok(ts, i + 1).k \in {"colon", "sp"}

\* A phrase anywhere in the text, as in /visit\s+date/i
HasPhrase(ts, phrase) ==
    \E i \in 1..Len(ts) : ts[i].k = "alpha" /\ ts[i].s = phrase

\* String.prototype.trim
RECURSIVE TrimLeft(_)
TrimLeft(ts) == IF ts # <<>> /\ Head(ts).k = "sp" THEN TrimLeft(Tail(ts)) ELSE ts

RECURSIVE TrimRight(_)
TrimRight(ts) ==
    IF ts # <<>> /\ ts[Len(ts)].k = "sp" THEN TrimRight(SubSeq(ts, 1, Len(ts) - 1)) ELSE ts

Trim(ts) == TrimRight(TrimLeft(ts))

(***************************************************************************)
(* ContextClassifier: classifyByContext (src/lib/chronology/findDates.ts)   *)
(***************************************************************************)

\* findDates.ts:399-409, DOS_PATTERNS: some pattern matches ts
MatchesDOS(ts) ==
    \/ HasPhrase(ts, "date of service")
    \/ WordThenColonOrSpace(ts, "dos")
    \/ HasPhrase(ts, "visit date")
    \/ HasPhrase(ts, "service date")
    \/ HasPhrase(ts, "encounter date")
    \/ HasPhrase(ts, "admission date")
    \/ HasPhrase(ts, "procedure date")
    \/ HasPhrase(ts, "exam date")
    \/ HasPhrase(ts, "treatment date")

\* findDates.ts:411-417, DOB_PATTERNS
MatchesDOB(ts) ==
    \/ HasPhrase(ts, "date of birth")
    \/ WordThenColonOrSpace(ts, "dob")
    \/ HasPhrase(ts, "birth date") \/ HasPhrase(ts, "birthdate")
    \/ WordThenColonOrSpace(ts, "born")
    \/ \E i \in 1..Len(ts) : \E j \in (i + 1)..Len(ts) :
          /\ ts[i].k = "alpha" /\ ts[i].s = "patient"
          /\ ts[j].k = "alpha" /\ ts[j].s = "born"

\* findDates.ts:419, FAX_PATTERNS
MatchesFAX(ts) ==
    \/ HasPhrase(ts, "fax")
    \/ HasPhrase(ts, "transmitted")
    \/ WordThenColonOrSpace(ts, "sent")
    \/ HasPhrase(ts, "received")

NoClassification == [classification |-> "pending", confidence |-> 0]

\* findDates.ts:424-459 with the date-of-birth test made before the
\* date-of-service test
classifyByContextBirthFirst(b, a) ==
    LET context == b \o <<Sp>> \o a IN
    IF MatchesDOB(b) THEN [classification |-> "dob", confidence |-> 95]
    ELSE IF MatchesDOS(b) THEN [classification |-> "date_of_service", confidence |-> 90]
    ELSE IF MatchesFAX(context) THEN [classification |-> "fax", confidence |-> 80]
    ELSE IF MatchesDOS(a) THEN [classification |-> "date_of_service", confidence |-> 70]
    ELSE [classification |-> "unknown", confidence |-> 0]

\* findDates.ts:424-459; a confidence is in hundredths (0.9 is 90)
classifyByContext(b, a) ==
    LET context == b \o <<Sp>> \o a IN
    IF MatchesDOS(b) THEN [classification |-> "date_of_service", confidence |-> 90]
    ELSE IF MatchesDOB(b) THEN [classification |-> "dob", confidence |-> 95]
    ELSE IF MatchesFAX(context) THEN [classification |-> "fax", confidence |-> 80]
    ELSE IF MatchesDOS(a) THEN [classification |-> "date_of_service", confidence |-> 70]
    ELSE [classification |-> "unknown", confidence |-> 0]

(***************************************************************************)
(* DateMatcher: DATE_RE and parseDate (src/lib/chronology/findDates.ts)     *)
(***************************************************************************)

\* findDates.ts:208, MONTH (matched case-insensitively)
MonthWords ==
    {"jan", "january", "feb", "february", "mar", "march", "apr", "april", "may",
     "jun", "june", "jul", "july", "aug", "august", "sep", "sept", "september",
     "oct", "october", "nov", "november", "dec", "december"}

\* (?:19|20)\d{2}
IsYear4(t) == t.k = "num" /\ t.w = 4 /\ (t.v \div 100) \in {19, 20}

\* (?:(?:19|20)?\d{2})
IsYear2or4(t) == (t.k = "num" /\ t.w = 2) \/ IsYear4(t)

\* (?:0?[1-9]|1[0-2])
IsMonthNum(t) ==
    t.k = "num" /\ ((t.w = 1 /\ t.v \in 1..9) \/ (t.w = 2 /\ t.v \in 1..12))

\* (?:0?[1-9]|[12]\d|3[01])
IsDayNum(t) ==
    t.k = "num" /\ ((t.w = 1 /\ t.v \in 1..9) \/ (t.w = 2 /\ t.v \in 1..31))

\* [-/.] and [-/]
IsSep(t) == t.k = "sep" /\ t.s \in {"-", "/", "."}
IsDashOrSlash(t) == t.k = "sep" /\ t.s \in {"-", "/"}

IsMonthWord(t) == t.k = "alpha" /\ t.s \in MonthWords

\* (?:st|nd|rd|th)
IsSuffix(t) == t.k = "alpha" /\ t.s \in {"st", "nd", "rd", "th"}

\* \b before token i and after token i + n - 1
WordBounded(ts, i, n) == ~IsWordTok(Tok(ts, i - 1)) /\ ~IsWordTok(Tok(ts, i + n))

\* Each pattern below gives the number of tokens it matches at index i of
\* ts, 0 when it does not match there.

\* findDates.ts:211-213
MatchIsoYmd(ts, i) ==
    IF /\ IsYear4(Tok(ts, i)) /\ IsSep(Tok(ts, i + 1))
       /\ IsMonthNum(Tok(ts, i + 2)) /\ IsSep(Tok(ts, i + 3))
       /\ IsDayNum(Tok(ts, i + 4)) /\ WordBounded(ts, i, 5)
    THEN 5 ELSE 0

\* findDates.ts:216-218
MatchDmy(ts, i) ==
    IF /\ IsDayNum(Tok(ts, i)) /\ IsSep(Tok(ts, i + 1))
       /\ IsMonthNum(Tok(ts, i + 2)) /\ IsSep(Tok(ts, i + 3))
       /\ IsYear2or4(Tok(ts, i + 4)) /\ WordBounded(ts, i, 5)
    THEN 5 ELSE 0

\* findDates.ts:221-223
MatchMdy(ts, i) ==
    IF /\ IsMonthNum(Tok(ts, i)) /\ IsSep(Tok(ts, i + 1))
       /\ IsDayNum(Tok(ts, i + 2)) /\ IsSep(Tok(ts, i + 3))
       /\ IsYear2or4(Tok(ts, i + 4)) /\ WordBounded(ts, i, 5)
    THEN 5 ELSE 0

\* findDates.ts:226-228
MatchCompactYmd(ts, i) ==
    LET t == Tok(ts, i) IN
    IF /\ t.k = "num" /\ t.w = 8
       /\ (t.v \div 1000000) \in {19, 20}
       /\ ((t.v \div 100) % 100) \in 1..12
       /\ (t.v % 100) \in 1..31
       /\ WordBounded(ts, i, 1)
    THEN 1 ELSE 0

\* findDates.ts:231-234
MatchMonthDayYear(ts, i) ==
    LET j1 == i + 3
        j2 == IF IsSuffix(Tok(ts, j1)) THEN j1 + 1 ELSE j1
        j3 == IF Tok(ts, j2).k = "comma" THEN j2 + 1 ELSE j2
    IN  IF /\ IsMonthWord(Tok(ts, i)) /\ Tok(ts, i + 1).k = "sp"
           /\ IsDayNum(Tok(ts, i + 2))
           /\ Tok(ts, j3).k = "sp" /\ IsYear2or4(Tok(ts, j3 + 1))
           /\ WordBounded(ts, i, j3 + 2 - i)
        THEN j3 + 2 - i ELSE 0

\* findDates.ts:237-240
MatchDayMonthYear(ts, i) ==
    LET j1 == i + 1
        j2 == IF IsSuffix(Tok(ts, j1)) THEN j1 + 1 ELSE j1
        j3 == j2 + 1
        j4 == IF /\ Tok(ts, j3).k = "alpha" /\ Tok(ts, j3).s = "of"
                 /\ Tok(ts, j3 + 1).k = "sp"
              THEN j3 + 2 ELSE j3
        j5 == j4 + 1
        j6 == IF Tok(ts, j5).k = "comma" THEN j5 + 1 ELSE j5
    IN  IF /\ IsDayNum(Tok(ts, i)) /\ Tok(ts, j2).k = "sp"
           /\ IsMonthWord(Tok(ts, j4))
           /\ Tok(ts, j6).k = "sp" /\ IsYear2or4(Tok(ts, j6 + 1))
           /\ ~IsWordTok(Tok(ts, i - 1)) /\ ~IsWordTok(Tok(ts, j6 + 2))
        THEN j6 + 2 - i ELSE 0

\* findDates.ts:243
MatchMonthYear(ts, i) ==
    IF /\ IsMonthWord(Tok(ts, i)) /\ Tok(ts, i + 1).k = "sp"
       /\ IsYear4(Tok(ts, i + 2)) /\ WordBounded(ts, i, 3)
    THEN 3 ELSE 0

\* findDates.ts:246-248
MatchNumericMonthYear(ts, i) ==
    IF /\ IsMonthNum(Tok(ts, i)) /\ IsDashOrSlash(Tok(ts, i + 1))
       /\ IsYear4(Tok(ts, i + 2)) /\ WordBounded(ts, i, 3)
    THEN 3 ELSE 0

\* findDates.ts:250-262, DATE_RE at index i: the first alternative of the
\* union that matches there
DateReMatchAt(ts, i) ==
    IF MatchIsoYmd(ts, i) > 0 THEN MatchIsoYmd(ts, i)
    ELSE IF MatchDmy(ts, i) > 0 THEN MatchDmy(ts, i)
    ELSE IF MatchMdy(ts, i) > 0 THEN MatchMdy(ts, i)
    ELSE IF MatchCompactYmd(ts, i) > 0 THEN MatchCompactYmd(ts, i)
    ELSE IF MatchMonthDayYear(ts, i) > 0 THEN MatchMonthDayYear(ts, i)
    ELSE IF MatchDayMonthYear(ts, i) > 0 THEN MatchDayMonthYear(ts, i)
    ELSE IF MatchMonthYear(ts, i) > 0 THEN MatchMonthYear(ts, i)
    ELSE MatchNumericMonthYear(ts, i)

\* The matches when each search resumes one token after the start of the
\* last match
RECURSIVE ExecAllFromNextToken(_, _)
ExecAllFromNextToken(ts, i) ==
    IF i > Len(ts) THEN <<>>
    ELSE LET n == DateReMatchAt(ts, i) IN
         IF n > 0 THEN <<[index |-> i, n |-> n]>> \o ExecAllFromNextToken(ts, i + 1)
         ELSE ExecAllFromNextToken(ts, i + 1)

\* findDates.ts:479-482, globalRe.exec in a loop from index i: the matches
\* left to right, each search resuming where the last match ended
RECURSIVE ExecAll(_, _)
ExecAll(ts, i) ==
    IF i > Len(ts) THEN <<>>
    ELSE LET n == DateReMatchAt(ts, i) IN
         IF n > 0 THEN <<[index |-> i, n |-> n]>> \o ExecAll(ts, i + n)
         ELSE ExecAll(ts, i + 1)

\* new Date(year, monthIndex, day): local midnight of that day as hours
\* since the epoch in UTC; a monthIndex or day out of range carries over.
\* The value is never NaN.
NewDate(year, monthIndex, day) ==
    (DaysFromCivil(year + monthIndex \div 12, (monthIndex % 12) + 1, 1) + day - 1) * 24 - tz

\* The calendar fields of a Date in the process's time zone
LocalFields(t) == CivilFromDays((t + tz) \div 24)

\* findDates.ts:496, parsed.toISOString().split("T")[0]: the UTC calendar day
ToISODate(t) == CivilFromDays(t \div 24)

\* findDates.ts:337-350, monthNames[month]; -1 is undefined
MonthIndex(word) ==
    CASE word \in {"jan", "january"}          -> 0
      [] word \in {"feb", "february"}         -> 1
      [] word \in {"mar", "march"}            -> 2
      [] word \in {"apr", "april"}            -> 3
      [] word = "may"                         -> 4
      [] word \in {"jun", "june"}             -> 5
      [] word \in {"jul", "july"}             -> 6
      [] word \in {"aug", "august"}           -> 7
      [] word \in {"sep", "sept", "september"} -> 8
      [] word \in {"oct", "october"}          -> 9
      [] word \in {"nov", "november"}         -> 10
      [] word \in {"dec", "december"}         -> 11
      [] OTHER                                -> 0 - 1

\* String.prototype.toLowerCase
ToLowerCase(ts) == [i \in 1..Len(ts) |-> IF ts[i].k = "alpha" THEN [ts[i] EXCEPT !.v = 0] ELSE ts[i]]

\* monthNames[month] of a captured word: the keys are lower case
MonthIndexOf(t) == IF t.v = 0 THEN MonthIndex(t.s) ELSE 0 - 1

Pow10(n) == IF n = 0 THEN 1 ELSE IF n = 1 THEN 10 ELSE IF n = 2 THEN 100
            ELSE IF n = 3 THEN 1000 ELSE IF n = 4 THEN 10000 ELSE 100000

\* year.length === 2 ? 2000 + parseInt(year) : parseInt(year)
FullYear(v, w) == IF w = 2 THEN 2000 + v ELSE v

\* findDates.ts:306-311, formats[0]; <<>> is "no return here"
ParseIso(raw) ==
    IF /\ Len(raw) = 5
       /\ raw[1].k = "num" /\ raw[1].w = 4 /\ IsSep(raw[2])
       /\ raw[3].k = "num" /\ raw[3].w \in 1..2 /\ IsSep(raw[4])
       /\ raw[5].k = "num" /\ raw[5].w \in 1..2
    THEN <<NewDate(raw[1].v, raw[3].v - 1, raw[5].v)>>
    ELSE <<>>

\* findDates.ts:314-319, formats[2]
ParseCompact(raw) ==
    IF Len(raw) = 1 /\ raw[1].k = "num" /\ raw[1].w = 8
    THEN <<NewDate(raw[1].v \div 10000, ((raw[1].v \div 100) % 100) - 1, raw[1].v % 100)>>
    ELSE <<>>

\* findDates.ts:322-334 with < 12 in place of <= 12
ParseNumericOffByOne(raw) ==
    IF /\ Len(raw) = 5
       /\ raw[1].k = "num" /\ raw[1].w \in 1..2 /\ IsSep(raw[2])
       /\ raw[3].k = "num" /\ raw[3].w \in 1..2 /\ IsSep(raw[4])
       /\ raw[5].k = "num" /\ raw[5].w \in 2..4
    THEN LET p1 == raw[1].v
             p2 == raw[3].v
             year == FullYear(raw[5].v, raw[5].w)
         IN  IF p1 < 12 THEN <<NewDate(year, p1 - 1, p2)>>
             ELSE <<NewDate(year, p2 - 1, p1)>>
    ELSE <<>>

\* findDates.ts:322-334, formats[1]: month-first when p1 <= 12, else day-first
ParseNumeric(raw) ==
    IF /\ Len(raw) = 5
       /\ raw[1].k = "num" /\ raw[1].w \in 1..2 /\ IsSep(raw[2])
       /\ raw[3].k = "num" /\ raw[3].w \in 1..2 /\ IsSep(raw[4])
       /\ raw[5].k = "num" /\ raw[5].w \in 2..4
    THEN LET p1 == raw[1].v
             p2 == raw[3].v
             year == FullYear(raw[5].v, raw[5].w)
         IN  IF p1 <= 12 THEN <<NewDate(year, p1 - 1, p2)>>
             ELSE <<NewDate(year, p2 - 1, p1)>>
    ELSE <<>>

\* findDates.ts:353-362, /^([a-z]+)\s+(\d{1,2})(?:st|nd|rd|th)?\s*,?\s*(\d{2,4})$/i
\* on the lower-cased text.  Between the day and the year everything is
\* optional, so a single digit run after the word is split into a day of
\* two digits (one when too few are left) and a year of the rest.
ParseMonthDayYear(normalized) ==
    LET n  == Len(normalized)
        t3 == Tok(normalized, 3)
        j1 == IF IsSuffix(Tok(normalized, 4)) THEN 5 ELSE 4
        j2 == IF Tok(normalized, j1).k = "sp" THEN j1 + 1 ELSE j1
        j3 == IF Tok(normalized, j2).k = "comma" THEN j2 + 1 ELSE j2
        j4 == IF Tok(normalized, j3).k = "sp" THEN j3 + 1 ELSE j3
        ty == Tok(normalized, j4)
        dayDigits == IF t3.w - 2 \in 2..4 THEN 2 ELSE 1
        yw == t3.w - dayDigits
    IN  IF ~(Tok(normalized, 1).k = "alpha" /\ Tok(normalized, 2).k = "sp" /\ t3.k = "num")
        THEN <<>>
        ELSE IF MonthIndexOf(normalized[1]) < 0 THEN <<>>
        ELSE IF n = 3
            THEN IF yw \in 2..4
                 THEN <<NewDate(FullYear(t3.v % Pow10(yw), yw),
                                MonthIndexOf(normalized[1]),
                                t3.v \div Pow10(yw))>>
                 ELSE <<>>
        ELSE IF t3.w \in 1..2 /\ j4 = n /\ j4 > 3 /\ ty.k = "num" /\ ty.w \in 2..4
            THEN <<NewDate(FullYear(ty.v, ty.w), MonthIndexOf(normalized[1]), t3.v)>>
        ELSE <<>>

\* findDates.ts:365-374,
\* /^(\d{1,2})(?:st|nd|rd|th)?\s+(?:of\s+)?([a-z]+)\s*,?\s*(\d{2,4})$/i
ParseDayMonthYear(normalized) ==
    LET n  == Len(normalized)
        t1 == Tok(normalized, 1)
        j1 == IF IsSuffix(Tok(normalized, 2)) THEN 3 ELSE 2
        j2 == j1 + 1
        j3 == IF /\ Tok(normalized, j2).k = "alpha" /\ Tok(normalized, j2).s = "of"
                 /\ Tok(normalized, j2 + 1).k = "sp"
                 /\ Tok(normalized, j2 + 2).k = "alpha"
              THEN j2 + 2 ELSE j2
        j4 == j3 + 1
        j5 == IF Tok(normalized, j4).k = "sp" THEN j4 + 1 ELSE j4
        j6 == IF Tok(normalized, j5).k = "comma" THEN j5 + 1 ELSE j5
        j7 == IF Tok(normalized, j6).k = "sp" THEN j6 + 1 ELSE j6
        ty == Tok(normalized, j7)
    IN  IF /\ t1.k = "num" /\ t1.w \in 1..2
           /\ Tok(normalized, j1).k = "sp"
           /\ Tok(normalized, j3).k = "alpha"
           /\ j7 = n /\ ty.k = "num" /\ ty.w \in 2..4
           /\ MonthIndexOf(normalized[j3]) >= 0
        THEN <<NewDate(FullYear(ty.v, ty.w), MonthIndexOf(normalized[j3]), t1.v)>>
        ELSE <<>>

\* findDates.ts:377-385, /^([a-z]+)\s+(\d{4})$/i
ParseMonthYear(normalized) ==
    IF /\ Len(normalized) = 3
       /\ normalized[1].k = "alpha" /\ normalized[2].k = "sp"
       /\ normalized[3].k = "num" /\ normalized[3].w = 4
       /\ MonthIndexOf(normalized[1]) >= 0
    THEN <<NewDate(normalized[3].v, MonthIndexOf(normalized[1]), 1)>>
    ELSE <<>>

\* findDates.ts:388-393, /^(\d{1,2})[-/](\d{4})$/
ParseNumericMonthYear(raw) ==
    IF /\ Len(raw) = 3
       /\ raw[1].k = "num" /\ raw[1].w \in 1..2 /\ IsDashOrSlash(raw[2])
       /\ raw[3].k = "num" /\ raw[3].w = 4
    THEN <<NewDate(raw[3].v, raw[1].v - 1, 1)>>
    ELSE <<>>

\* findDates.ts:292-396; null is the empty sequence, a Date a sequence of
\* one value
parseDate(dateStr) ==
    LET normalized == ToLowerCase(Trim(dateStr)) IN
    IF ParseIso(dateStr) # <<>> THEN ParseIso(dateStr)
    ELSE IF ParseCompact(dateStr) # <<>> THEN ParseCompact(dateStr)
    ELSE IF ParseNumeric(dateStr) # <<>> THEN ParseNumeric(dateStr)
    ELSE IF ParseMonthDayYear(normalized) # <<>> THEN ParseMonthDayYear(normalized)
    ELSE IF ParseDayMonthYear(normalized) # <<>> THEN ParseDayMonthYear(normalized)
    ELSE IF ParseMonthYear(normalized) # <<>> THEN ParseMonthYear(normalized)
    ELSE ParseNumericMonthYear(dateStr)

(***************************************************************************)
(* ContextExtractor: getDatesWithContext                                    *)
(* (src/lib/chronology/findDates.ts)                                        *)
(***************************************************************************)

\* The character offset of token i: the widths of the tokens before it
RECURSIVE CharOffset(_, _)
CharOffset(ts, i) == IF i <= 1 THEN 0 ELSE CharOffset(ts, i - 1) + ts[i - 1].w

\* text.length
TextLength(ts) == CharOffset(ts, Len(ts) + 1)

\* text.slice(a, b) from token i at character offset o on.  A token cut by
\* the slice leaves a fragment (k = "cut") which no pattern matches.
RECURSIVE SliceFrom(_, _, _, _, _)
SliceFrom(ts, i, o, a, b) ==
    IF i > Len(ts) THEN <<>>
    ELSE LET w  == ts[i].w
             lo == IF a > o THEN a ELSE o
             hi == IF b < o + w THEN b ELSE o + w
             piece == IF hi - lo <= 0 THEN <<>>
                      ELSE IF hi - lo = w THEN <<ts[i]>>
                      ELSE <<[k |-> "cut", v |-> 0, w |-> hi - lo, s |-> ts[i].s]>>
         IN  piece \o SliceFrom(ts, i + 1, o + w, a, b)

Slice(ts, a, b) == SliceFrom(ts, 1, 0, a, b)

\* findDates.ts:464-469; ratio < 0.2 and ratio > 0.8 in integers
getPosition(offset, textLength) ==
    IF offset * 5 < textLength THEN "top"
    ELSE IF offset * 5 > 4 * textLength THEN "bottom"
    ELSE "middle"

\* findDates.ts:487-488, the characters of context on each side
ContextChars == 50

\* findDates.ts:483-508, the body of the loop for one match m: the entry
\* pushed, none when parseDate returns null
ExtractedDateOf(txt, m) ==
    LET raw        == SubSeq(txt, m.index, m.index + m.n - 1)
        offset     == CharOffset(txt, m.index)
        rawLength  == CharOffset(txt, m.index + m.n) - offset
        beforeStart == IF offset - ContextChars > 0 THEN offset - ContextChars ELSE 0
        afterEnd   == IF TextLength(txt) < offset + rawLength + ContextChars
                      THEN TextLength(txt) ELSE offset + rawLength + ContextChars
        b          == Trim(Slice(txt, beforeStart, offset))
        a          == Trim(Slice(txt, offset + rawLength, afterEnd))
        parsed     == parseDate(raw)
        cls        == classifyByContext(b, a)
    IN  IF parsed = <<>> THEN <<>>
        ELSE <<[raw            |-> raw,
                iso            |-> ToISODate(parsed[1]),
                context        |-> [before |-> b, after |-> a],
                position       |-> getPosition(offset, TextLength(txt)),
                offset         |-> offset,
                classification |-> cls.classification,
                confidence     |-> cls.confidence]>>

RECURSIVE ExtractLoop(_, _, _)
ExtractLoop(txt, matches, i) ==
    IF i > Len(matches) THEN <<>>
    ELSE ExtractedDateOf(txt, matches[i]) \o ExtractLoop(txt, matches, i + 1)

\* findDates.ts:475-512
getDatesWithContext(txt) ==
    IF txt = <<>> THEN <<>> ELSE ExtractLoop(txt, ExecAll(txt, 1), 1)

\* findDates.ts:493, the value of parsed for every match of DATE_RE in txt
\* that parses: its year, month and day in the process's time zone
ParsedOf(txt) ==
    LET matches == ExecAll(txt, 1)
        RawOf(m) == SubSeq(txt, m.index, m.index + m.n - 1)
        parsing == SelectSeq(matches, LAMBDA m : parseDate(RawOf(m)) # <<>>)
    IN  [i \in 1..Len(parsing) |->
            [raw |-> RawOf(parsing[i]),
             local |-> LocalFields(parseDate(RawOf(parsing[i]))[1])]]

(***************************************************************************)
(* DateOfServiceSelector: selectDateOfService (findDates.ts)               *)
(***************************************************************************)

\* null, and the value not yet returned
NoSelection == <<>>

\* Array.prototype.find: the index of the first element that satisfies
\* Test, 0 when there is none
FindIndex(seq, Test(_)) ==
    IF \E i \in 1..Len(seq) : Test(seq[i])
    THEN CHOOSE i \in 1..Len(seq) : Test(seq[i]) /\ \A j \in 1..(i - 1) : ~Test(seq[j])
    ELSE 0

\* findDates.ts:524-526 with > in place of >=
IsConfidentDOSStrict(d) == d.classification = "date_of_service" /\ d.confidence > 80

\* findDates.ts:524-526
IsConfidentDOS(d) == d.classification = "date_of_service" /\ d.confidence >= 80

\* findDates.ts:532-534 with the fax test left out
IsCandidateFaxKept(d) == d.classification # "dob"

\* findDates.ts:532-534
IsCandidate(d) == d.classification # "dob" /\ d.classification # "fax"

\* findDates.ts:518-551; null is the empty sequence, {date, confident} a
\* sequence of one record
selectDateOfService(ds) ==
    IF Len(ds) = 0 THEN <<>>
    ELSE LET confidentDOS == FindIndex(ds, IsConfidentDOS)
             candidates   == SelectSeq(ds, IsCandidate)
             topDates     == SelectSeq(candidates, LAMBDA d : d.position = "top")
         IN  IF confidentDOS # 0
                 THEN <<[date |-> ds[confidentDOS].iso, confident |-> TRUE]>>
             ELSE IF Len(candidates) = 0 THEN <<>>
             ELSE IF Len(topDates) = 1
                 THEN <<[date |-> topDates[1].iso, confident |-> FALSE]>>
             ELSE IF Len(candidates) = 1
                 THEN <<[date |-> candidates[1].iso, confident |-> FALSE]>>
             ELSE <<[date |-> candidates[1].iso, confident |-> FALSE]>>

\* The time zones the process is run in, in hours east of UTC
TimeZones == {0 - 8, 0, 1}

(***************************************************************************)
(* Duplicates: GET /api/duplicates (src/app/api/duplicates/[pageId]/route.ts)*)
(* and the simhash comparison (src/lib/chronology/findDates.ts).  A simHash *)
(* is the sequence of its 16 hexadecimal digits, null the empty sequence;   *)
(* a null textHash is the empty string.  A similarity is in 64ths.          *)
(***************************************************************************)

\* The bits of a simhash: 1 - distance / 64
SimHashBits == 64

\* Bit i of a hexadecimal digit
HexBit(n, i) == (n \div (2 ^ i)) % 2

RECURSIVE DigitDistanceFrom(_, _, _)
DigitDistanceFrom(hash1, hash2, k) ==
    IF k > Len(hash1) THEN 0
    ELSE Cardinality({i \in 0..3 : HexBit(hash1[k], i) # HexBit(hash2[k], i)})
         + DigitDistanceFrom(hash1, hash2, k + 1)

\* findDates.ts:628-640: the one bits of hash1 xor hash2, counted digit by
\* digit
hammingDistance(hash1, hash2) == DigitDistanceFrom(hash1, hash2, 1)

\* findDates.ts:646-649
simHashSimilarity(hash1, hash2) == SimHashBits - hammingDistance(hash1, hash2)

\* route.ts:171 with the threshold at 0.85
AtLeastEightyFiveHundredths(similarity) == similarity * 100 >= 85 * SimHashBits

\* similarity >= 0.9 on a similarity in 64ths
AtLeastNineTenths(similarity) == similarity * 10 >= 9 * SimHashBits

\* route.ts:107-118, findMany where documentId, orderBy pageNumber asc
RECURSIVE OrderByPageNumber(_)
OrderByPageNumber(rows) ==
    IF rows = {} THEN <<>>
    ELSE LET first == CHOOSE r \in rows : \A q \in rows : r.pageNumber <= q.pageNumber
         IN  <<first>> \o OrderByPageNumber(rows \ {first})

FindManyPages(table, documentId) ==
    OrderByPageNumber({r \in table : r.documentId = documentId})

\* route.ts:124-126, the Map after one more page: a Map keeps its keys in
\* insertion order
HashGroupsPut(groups, page) ==
    IF \E k \in 1..Len(groups) : groups[k].key = page.textHash
    THEN [k \in 1..Len(groups) |->
            IF groups[k].key = page.textHash
            THEN [groups[k] EXCEPT !.group = Append(@, page)]
            ELSE groups[k]]
    ELSE Append(groups, [key |-> page.textHash, group |-> <<page>>])

\* route.ts:121-127
RECURSIVE ExactHashGroups(_, _, _)
ExactHashGroups(ps, i, groups) ==
    IF i > Len(ps) THEN groups
    ELSE IF ps[i].textHash = "" THEN ExactHashGroups(ps, i + 1, groups)
    ELSE ExactHashGroups(ps, i + 1, HashGroupsPut(groups, ps[i]))

\* route.ts:133-142 with the last page of the group as primary
ExactGroupOfLastPrimary(group) ==
    [primaryPageId     |-> group[Len(group)].id,
     primaryPageNumber |-> group[Len(group)].pageNumber,
     pages |-> [k \in 1..Len(group) |->
                  [id |-> group[k].id, pageNumber |-> group[k].pageNumber,
                   similarity |-> SimHashBits]]]

\* route.ts:133-142
ExactGroupOf(group) ==
    [primaryPageId     |-> group[1].id,
     primaryPageNumber |-> group[1].pageNumber,
     pages |-> [k \in 1..Len(group) |->
                  [id |-> group[k].id, pageNumber |-> group[k].pageNumber,
                   similarity |-> SimHashBits]]]

\* route.ts:129-144
ExactDuplicatesOf(ps) ==
    LET groups == ExactHashGroups(ps, 1, <<>>)
        large  == SelectSeq(groups, LAMBDA g : Len(g.group) > 1)
    IN  [k \in 1..Len(large) |-> ExactGroupOf(large[k].group)]

\* route.ts:148-153 with nothing added to the set
PagesInExactGroupsNone(exactDuplicates) == {}

\* route.ts:148-153
PagesInExactGroups(exactDuplicates) ==
    UNION {{exactDuplicates[g].pages[k].id : k \in 1..Len(exactDuplicates[g].pages)} :
              g \in 1..Len(exactDuplicates)}

\* route.ts:163-176, the group of pageA = remainingPages[i]: pageA and the
\* later pages, not yet processed and with a simHash, that are similar to
\* pageA
NearGroupOf(remainingPages, i, processedPages) ==
    LET pageA == remainingPages[i]
        later == SubSeq(remainingPages, i + 1, Len(remainingPages))
    IN  <<pageA>> \o
        SelectSeq(later, LAMBDA pageB :
            /\ pageB.id \notin processedPages
            /\ pageB.simHash # <<>>
            /\ AtLeastNineTenths(simHashSimilarity(pageA.simHash, pageB.simHash)))

\* route.ts:159-181
RECURSIVE NearDuplicateGroups(_, _, _, _)
NearDuplicateGroups(remainingPages, i, processedPages, groups) ==
    IF i > Len(remainingPages) THEN groups
    ELSE IF remainingPages[i].id \in processedPages \/ remainingPages[i].simHash = <<>>
    THEN NearDuplicateGroups(remainingPages, i + 1, processedPages, groups)
    ELSE LET group == NearGroupOf(remainingPages, i, processedPages)
             ids   == {group[k].id : k \in 1..Len(group)}
         IN  NearDuplicateGroups(remainingPages, i + 1, processedPages \cup ids,
                 IF Len(group) > 1
                 THEN Append(groups, [key |-> remainingPages[i].id, group |-> group])
                 ELSE groups)

\* route.ts:185-197
NearGroupRecordOf(primaryId, group) ==
    [primaryPageId     |-> primaryId,
     primaryPageNumber |-> group[1].pageNumber,
     pages |-> [k \in 1..Len(group) |->
                  [id |-> group[k].id, pageNumber |-> group[k].pageNumber,
                   similarity |->
                      IF group[k].id = primaryId THEN SimHashBits
                      ELSE simHashSimilarity(group[1].simHash, group[k].simHash)]]]

\* route.ts:155-198
NearDuplicatesOf(ps, exactDuplicates) ==
    LET inExact        == PagesInExactGroups(exactDuplicates)
        remainingPages == SelectSeq(ps, LAMBDA q : q.id \notin inExact)
        groups         == NearDuplicateGroups(remainingPages, 1, {}, <<>>)
    IN  [k \in 1..Len(groups) |-> NearGroupRecordOf(groups[k].key, groups[k].group)]

\* route.ts:96-206, the response to GET /api/duplicates?documentId=...
\* over the Page table; a missing parameter is the empty string
DuplicatesGET(table, documentId) ==
    IF documentId = ""
    THEN [status |-> 400, error |-> "documentId is required"]
    ELSE LET ps    == FindManyPages(table, documentId)
             exact == ExactDuplicatesOf(ps)
         IN  [status          |-> 200,
              documentId      |-> documentId,
              exactDuplicates |-> exact,
              nearDuplicates  |-> NearDuplicatesOf(ps, exact)]

(***************************************************************************)
(* Inputs of the inheritance and cluster specifications                    *)
(***************************************************************************)

\* The (dateOfService, dateSource, inheritedFrom set?) combinations of an
\* input page: inheritedFrom is set only on pages marked inherited.
InheritShapes ==
    {[d |-> d, s |-> s, f |-> FALSE] :
        d \in ServiceDates \cup {NullDate}, s \in DateSource}
    \cup
    {[d |-> d, s |-> "inherited", f |-> TRUE] : d \in ServiceDates \cup {NullDate}}

\* Page i of an applyInheritance input: ascending page numbers PageStep * i;
\* a set inheritedFrom names the page before it.
InheritPage(i, sh) ==
    [pageNumber    |-> PageStep * i,
     dateOfService |-> sh.d,
     dateSource    |-> sh.s,
     inheritedFrom |-> IF sh.f THEN PageStep * (i - 1) ELSE NoPage,
     documentType  |-> DocTypeOf(PageStep * i)]

\* The pages of a POST /api/cluster request: any order, any page numbers.
RequestShapes ==
    {[d |-> NullDate, s |-> "none"],
     [d |-> NullDate, s |-> "heuristic"],
     [d |-> <<2024, 3, 1>>, s |-> "heuristic"],
     [d |-> <<2024, 1, 5>>, s |-> "llm"],
     [d |-> <<2024, 1, 5>>, s |-> "inherited"],
     [d |-> <<2024, 3, 1>>, s |-> "none"]}

RequestPage(n, sh) ==
    [pageNumber    |-> n,
     dateOfService |-> sh.d,
     dateSource    |-> sh.s,
     inheritedFrom |-> NoPage,
     documentType  |-> DocTypeOf(n)]

RequestPages == {RequestPage(n, sh) : n \in 1..MaxPageNo, sh \in RequestShapes}

NoResponse == [status |-> 0]

(***************************************************************************)
(* The state before any input is given: every argument empty, nothing      *)
(* returned; the process runs in one of the time zones TimeZones.          *)
(***************************************************************************)
NoClassifyRequest == [documentId |-> "", pages |-> <<>>]
NoProcessRequest == [filename |-> "", documentId |-> ""]

\* Two POST /api/process requests served at the same time
Requests == {"A", "B"}

\* store.ts:57-60; message and error are undefined, held as ""
initialProcessingStatus ==
    [phase |-> "idle", progress |-> 0, message |-> "", error |-> ""]

Init ==
    /\ pc = "call"
    /\ pages = <<>> /\ result = <<>> /\ request = <<>> /\ response = NoResponse
    /\ before = <<>> /\ after = <<>> /\ classified = NoClassification
    /\ dates = <<>> /\ selected = NoSelection
    /\ tz = 0 /\ text = <<>> /\ written = <<>>
    /\ results = <<>> /\ parsedDates = <<>>
    /\ dbPages = {} /\ duplicates = NoResponse
    /\ classifyRequest = NoClassifyRequest /\ llmOutputs = <<>>
    /\ faults = {} /\ analyzed = {} /\ dateEvents = <<>>
    /\ classifyResponse = NoResponse
    /\ processRequest = NoProcessRequest /\ ocrFiles = <<>>
    /\ processResponse = NoResponse
    /\ exported = NoResponse
    /\ rawText = <<>> /\ normalizedOnce = <<>> /\ normalizedTwice = <<>>
    /\ fingerprint = <<>>
    /\ bucket = {}
    /\ procPc = [r \in Requests |-> "idle"]
    /\ procListed = [r \in Requests |-> {}]
    /\ procRead = [r \in Requests |-> <<>>]
    /\ processingStatus = initialProcessingStatus
    /\ uploadPc = "idle"
    /\ uploadSteps = <<>>
    /\ eventsAtStart = <<>>
    /\ eventTable = {}
    /\ eventsCreated = 0
    /\ contentPatched = <<>>
    /\ eventResponse = NoResponse
    /\ batchPages = 0
    /\ batchPc = "idle"
    /\ batchIndex = 0
    /\ inFlight = {}
    /\ settled = {}
    /\ batchDone = {}

(***************************************************************************)
(* Specification of applyInheritance: the caller assembles a page sequence *)
(* sorted by page number, then applies the function to it.                 *)
(***************************************************************************)
InitInherit == Init

\* The next page of the argument
InheritInput ==
    /\ pc = "call"
    /\ Len(pages) < MaxPages
    /\ \E sh \in InheritShapes :
          pages' = Append(pages, InheritPage(Len(pages) + 1, sh))
    /\ UNCHANGED <<pc, result, request, response>>
    /\ UNCHANGED <<classifyVars, selectVars, datesVars, duplicateVars, llmVars, processVars>>
    /\ UNCHANGED appVars

ApplyInheritance ==
    /\ pc = "call"
    /\ result' = applyInheritance(pages)
    /\ pc' = "return"
    /\ UNCHANGED <<pages, request, response>>
    /\ UNCHANGED <<classifyVars, selectVars, datesVars, duplicateVars, llmVars, processVars>>
    /\ UNCHANGED appVars

NextInherit == InheritInput \/ ApplyInheritance

SpecInherit == InitInherit /\ [][NextInherit]_vars

(***************************************************************************)
(* Specification of POST /api/cluster: a client assembles the request      *)
(* body, then the handler answers it.                                      *)
(***************************************************************************)
InitCluster == Init

\* The next page of the request body
ClusterInput ==
    /\ pc = "call"
    /\ Len(request) < MaxReqPages
    /\ \E p \in RequestPages : request' = Append(request, p)
    /\ UNCHANGED <<pc, response, pages, result>>
    /\ UNCHANGED <<classifyVars, selectVars, datesVars, duplicateVars, llmVars, processVars>>
    /\ UNCHANGED appVars

PostCluster ==
    /\ pc = "call"
    /\ response' = ClusterPOST(request)
    /\ pc' = "return"
    /\ UNCHANGED <<pages, result, request>>
    /\ UNCHANGED <<classifyVars, selectVars, datesVars, duplicateVars, llmVars, processVars>>
    /\ UNCHANGED appVars

NextCluster == ClusterInput \/ PostCluster

SpecCluster == InitCluster /\ [][NextCluster]_vars

(***************************************************************************)
(* Claims on the inheritance engine                                        *)
(***************************************************************************)

\* "This page has its own date" (the comment of route.ts:27): a
\* dateOfService is set and its dateSource is not none.
C1_OwnDate(p) == p.dateOfService # NullDate /\ p.dateSource # "none"

C1_DatedBefore(i) == {j \in 1..(i - 1) : C1_OwnDate(pages[j])}

C1_Nearest(i) == CHOOSE j \in C1_DatedBefore(i) : \A k \in C1_DatedBefore(i) : k <= j

C1_WitnessUndatedPrefix ==
    /\ pc = "return"
    /\ Len(pages) >= 2
    /\ pages[1].dateOfService = NullDate
    /\ C1_OwnDate(pages[2])
    /\ result[1].dateOfService = NullDate

\* The data-model invariant on a page sequence: every page marked inherited
\* has inheritedFrom set to the number of an earlier page whose dateSource
\* is not inherited.
C2_InheritedWellFormed(ps) ==
    \A i \in 1..Len(ps) :
        ps[i].dateSource = "inherited" =>
            /\ ps[i].inheritedFrom # NoPage
            /\ \E j \in 1..Len(ps) :
                /\ ps[j].pageNumber = ps[i].inheritedFrom
                /\ ps[j].pageNumber < ps[i].pageNumber
                /\ ps[j].dateSource # "inherited"

\* An input as a previous run leaves it: every page marked inherited names
\* an earlier page that has a date of its own (heuristic or llm) and carries
\* that page's date.
C2_InputConsistent(ps) ==
    \A i \in 1..Len(ps) :
        ps[i].dateSource = "inherited" =>
            \E j \in 1..(i - 1) :
                /\ ps[j].pageNumber = ps[i].inheritedFrom
                /\ ps[j].dateSource \in {"heuristic", "llm"}
                /\ ps[j].dateOfService # NullDate
                /\ ps[j].dateOfService = ps[i].dateOfService

\* C2: in the output of applyInheritance every page with dateSource =
\* inherited has inheritedFrom set to the number of an earlier page whose
\* own dateSource is not inherited.  Stated for the inputs that are
\* consistent themselves (sequences with pages already marked inherited
\* included), so that a violation is the code's and not the input's.
C2_InheritedFromEarlierOwnDatedPage ==
    (pc = "return" /\ C2_InputConsistent(pages)) => C2_InheritedWellFormed(result)

(***************************************************************************)
(* Claims on POST /api/cluster                                             *)
(***************************************************************************)

\* Number of indices of seq that hold x
Occurrences(seq, x) == Cardinality({k \in 1..Len(seq) : seq[k] = x})

C3_DistinctPageNumbers ==
    \A i, j \in 1..Len(request) :
        request[i].pageNumber = request[j].pageNumber => i = j

\* How many times page number n is listed in the clusters' pages, all
\* clusters together
RECURSIVE C3_ClusterListings(_, _)
C3_ClusterListings(clusters, n) ==
    IF clusters = <<>> THEN 0
    ELSE Occurrences(Head(clusters).pages, n) + C3_ClusterListings(Tail(clusters), n)

\* C3: in the ChronologyResult of POST /api/cluster, for a request whose
\* pages have distinct page numbers, every page number is in exactly one
\* place: listed once in exactly one cluster, or once in undatedPages; a
\* page whose dateOfService is null after inheritance is in no cluster and
\* a page with a date is not in undatedPages.
C3_EveryPageInExactlyOnePlace ==
    (pc = "return" /\ response.status = 200 /\ C3_DistinctPageNumbers) =>
        LET r == response.result IN
        /\ Len(r.pages) = Len(request)
        /\ \A i \in 1..Len(request) :
             \E k \in 1..Len(r.pages) : r.pages[k].pageNumber = request[i].pageNumber
        /\ \A k \in 1..Len(r.pages) :
             LET n == r.pages[k].pageNumber IN
             /\ C3_ClusterListings(r.clusters, n) + Occurrences(r.undatedPages, n) = 1
             /\ r.pages[k].dateOfService = NullDate => C3_ClusterListings(r.clusters, n) = 0
             /\ r.pages[k].dateOfService # NullDate => Occurrences(r.undatedPages, n) = 0
        /\ \A c \in 1..Len(r.clusters) : \A m \in 1..Len(r.clusters[c].pages) :
             \E i \in 1..Len(request) : request[i].pageNumber = r.clusters[c].pages[m]
        /\ \A m \in 1..Len(r.undatedPages) :
             \E i \in 1..Len(request) : request[i].pageNumber = r.undatedPages[m]

\* C3 witness: a request given out of page order whose result has an
\* undated page and a cluster of a dated page and a page that inherited
\* its date.
C3_Witness ==
    /\ pc = "return"
    /\ response.status = 200
    /\ C3_DistinctPageNumbers
    /\ Len(request) = 3
    /\ request[1].pageNumber > request[2].pageNumber
    /\ Len(response.result.undatedPages) = 1
    /\ Len(response.result.clusters) = 1
    /\ Len(response.result.clusters[1].pages) = 2
    /\ \E k \in 1..3 : /\ response.result.pages[k].dateSource = "inherited"
                       /\ \E i \in 1..3 : /\ request[i].pageNumber = response.result.pages[k].pageNumber
                                          /\ request[i].dateOfService = NullDate

(***************************************************************************)
(* Specification of classifyByContext: the text before and the text after  *)
(* the date are written word by word, then classified.                     *)
(***************************************************************************)

\* The words and phrases of a context, with the punctuation that follows
ContextItems ==
    {<<Alpha("date of service", 15, 1)>>,
     <<Alpha("visit date", 10, 0)>>,
     <<Alpha("dos", 3, 1)>>,
     <<Alpha("dos", 3, 1), Colon>>,
     <<Alpha("dob", 3, 1), Colon>>,
     <<Alpha("born", 4, 0)>>,
     <<Alpha("patient", 7, 1)>>,
     <<Alpha("fax", 3, 1)>>,
     <<Alpha("sent", 4, 0)>>,
     <<Alpha("labs", 4, 0)>>}

\* ts followed by one more item, a space between
WithItem(ts, item) == IF ts = <<>> THEN item ELSE ts \o <<Sp>> \o item

ItemsIn(ts) == Cardinality({i \in 1..Len(ts) : ts[i].k = "alpha"})

BeforeInput ==
    /\ pc = "call"
    /\ after = <<>>
    /\ ItemsIn(before) < MaxBeforeItems
    /\ \E item \in ContextItems : before' = WithItem(before, item)
    /\ UNCHANGED <<pc, after, classified>>
    /\ UNCHANGED <<clusterVars, selectVars, datesVars, duplicateVars, llmVars, processVars>>
    /\ UNCHANGED appVars

AfterInput ==
    /\ pc = "call"
    /\ ItemsIn(after) < MaxAfterItems
    /\ \E item \in ContextItems : after' = WithItem(after, item)
    /\ UNCHANGED <<pc, before, classified>>
    /\ UNCHANGED <<clusterVars, selectVars, datesVars, duplicateVars, llmVars, processVars>>
    /\ UNCHANGED appVars

ClassifyByContext ==
    /\ pc = "call"
    /\ classified' = classifyByContext(before, after)
    /\ pc' = "return"
    /\ UNCHANGED <<before, after>>
    /\ UNCHANGED <<clusterVars, selectVars, datesVars, duplicateVars, llmVars, processVars>>
    /\ UNCHANGED appVars

NextClassify == BeforeInput \/ AfterInput \/ ClassifyByContext

SpecClassify == Init /\ [][NextClassify]_vars

(***************************************************************************)
(* Specification of selectDateOfService                                    *)
(***************************************************************************)
Classifications == {"date_of_service", "dob", "referenced", "fax", "unknown"}

Confidences == {70, 80}

Positions == {"top", "middle"}

\* The iso of the i-th entry: every entry its own date
IsoOf(i) == <<2024, 1, i>>

SelectInput ==
    /\ pc = "call"
    /\ Len(dates) < MaxDates
    /\ \E c \in Classifications, f \in Confidences, p \in Positions :
          dates' = Append(dates, [iso            |-> IsoOf(Len(dates) + 1),
                                  classification |-> c,
                                  confidence     |-> f,
                                  position       |-> p])
    /\ UNCHANGED <<pc, selected>>
    /\ UNCHANGED <<clusterVars, classifyVars, datesVars, duplicateVars, llmVars, processVars>>
    /\ UNCHANGED appVars

SelectDateOfService ==
    /\ pc = "call"
    /\ selected' = selectDateOfService(dates)
    /\ pc' = "return"
    /\ UNCHANGED <<dates>>
    /\ UNCHANGED <<clusterVars, classifyVars, datesVars, duplicateVars, llmVars, processVars>>
    /\ UNCHANGED appVars

NextSelect == SelectInput \/ SelectDateOfService

SpecSelect == Init /\ [][NextSelect]_vars

(***************************************************************************)
(* Claims on selectDateOfService                                           *)
(***************************************************************************)
Min(S) == CHOOSE x \in S : \A y \in S : x <= y

C7_ConfidentEntries ==
    {i \in 1..Len(dates) :
        dates[i].classification = "date_of_service" /\ dates[i].confidence >= 80}

\* C7: selectDateOfService returns confident = true exactly when the input
\* holds an entry classified date_of_service with confidence >= 0.8, and
\* the date returned is then the iso of the first such entry in text order.
C7_ConfidentIffHighConfidenceDOS ==
    pc = "return" =>
        /\ (selected # <<>> /\ selected[1].confident) <=> (C7_ConfidentEntries # {})
        /\ C7_ConfidentEntries # {} =>
              selected[1].date = dates[Min(C7_ConfidentEntries)].iso

\* C7 witness: the first confident date_of_service entry is the third one,
\* after a dob entry and an unknown entry at the top, and it is returned.
C7_Witness ==
    /\ pc = "return"
    /\ Len(dates) = 3
    /\ dates[1].classification = "dob"
    /\ dates[2].classification = "unknown" /\ dates[2].position = "top"
    /\ C7_ConfidentEntries = {3}
    /\ selected = <<[date |-> IsoOf(3), confident |-> TRUE]>>

C8_Remaining ==
    {i \in 1..Len(dates) : dates[i].classification \notin {"dob", "fax"}}

C8_RemainingAtTop == {i \in C8_Remaining : dates[i].position = "top"}

\* C8: with no date_of_service entry of confidence >= 0.8, dob and fax
\* entries are left out: the result is none exactly when no entry remains;
\* otherwise confident = false with the date of the only remaining entry at
\* the top when exactly one remaining entry is at the top, and else the
\* date of the first remaining entry.  (Every entry has its own iso, so the
\* date names the entry chosen: never a dob or fax entry.)
C8_FallbackLeavesOutDobAndFax ==
    (pc = "return" /\ C7_ConfidentEntries = {}) =>
        /\ (selected = <<>>) <=> (C8_Remaining = {})
        /\ C8_Remaining # {} =>
              /\ selected[1].confident = FALSE
              /\ selected[1].date =
                    IF Cardinality(C8_RemainingAtTop) = 1
                    THEN dates[Min(C8_RemainingAtTop)].iso
                    ELSE dates[Min(C8_Remaining)].iso
              /\ \A i \in 1..Len(dates) :
                    dates[i].iso = selected[1].date =>
                        dates[i].classification \notin {"dob", "fax"}

\* C8 witness: a fax entry at the top comes first, then two remaining
\* entries of which only the later one is at the top; the later one is
\* returned, not confident.
C8_Witness ==
    /\ pc = "return"
    /\ Len(dates) = 3
    /\ C7_ConfidentEntries = {}
    /\ dates[1].classification = "fax" /\ dates[1].position = "top"
    /\ dates[2].classification = "date_of_service" /\ dates[2].position = "middle"
    /\ dates[3].classification = "unknown" /\ dates[3].position = "top"
    /\ selected = <<[date |-> IsoOf(3), confident |-> FALSE]>>

(***************************************************************************)
(* Claims on classifyByContext                                             *)
(***************************************************************************)

\* C9: classifyByContext applies its rules in a fixed order, first match
\* wins: a date-of-service phrase in before gives date_of_service 0.9 even
\* if before also holds a birth or fax phrase; else a birth phrase in
\* before gives dob 0.95; else a fax/transmission phrase anywhere in
\* before + " " + after gives fax 0.8 even if after holds a date-of-service
\* phrase; else a date-of-service phrase in after gives date_of_service
\* 0.7; else unknown 0.0.  No other pair is returned.
C9_RulesInFixedOrder ==
    pc = "return" =>
        LET dosBefore == MatchesDOS(before)
            dobBefore == MatchesDOB(before)
            faxAny    == MatchesFAX(before \o <<Sp>> \o after)
            dosAfter  == MatchesDOS(after)
        IN
        /\ dosBefore =>
              classified = [classification |-> "date_of_service", confidence |-> 90]
        /\ (~dosBefore /\ dobBefore) =>
              classified = [classification |-> "dob", confidence |-> 95]
        /\ (~dosBefore /\ ~dobBefore /\ faxAny) =>
              classified = [classification |-> "fax", confidence |-> 80]
        /\ (~dosBefore /\ ~dobBefore /\ ~faxAny /\ dosAfter) =>
              classified = [classification |-> "date_of_service", confidence |-> 70]
        /\ (~dosBefore /\ ~dobBefore /\ ~faxAny /\ ~dosAfter) =>
              classified = [classification |-> "unknown", confidence |-> 0]
        /\ classified \in
              {[classification |-> "date_of_service", confidence |-> 90],
               [classification |-> "dob", confidence |-> 95],
               [classification |-> "fax", confidence |-> 80],
               [classification |-> "date_of_service", confidence |-> 70],
               [classification |-> "unknown", confidence |-> 0]}

\* C9 witness: before holds a birth phrase and then a date-of-service
\* phrase, after holds a fax phrase: date_of_service 0.9 is returned.
C9_Witness ==
    /\ pc = "return"
    /\ before = <<Alpha("dob", 3, 1), Colon, Sp, Alpha("date of service", 15, 1)>>
    /\ after = <<Alpha("fax", 3, 1)>>
    /\ classified = [classification |-> "date_of_service", confidence |-> 90]

\* C9 witness: fax in before with a date-of-service phrase in after gives fax
C9_WitnessFaxBeforeDosAfter ==
    /\ pc = "return"
    /\ MatchesFAX(before) /\ ~MatchesDOS(before) /\ ~MatchesDOB(before)
    /\ MatchesDOS(after)
    /\ classified = [classification |-> "fax", confidence |-> 80]


(***************************************************************************)
(* Specification of getDatesWithContext: a page text is written (a label,  *)
(* one date in some surface form, a trailing word), the process runs in    *)
(* some time zone, and the function is applied to the text.                *)
(***************************************************************************)
MaxLabelItems == 1    \* most labels written in front of the date

\* The numbers written as days and months
DayValues   == {4, 29, 30, 31}
MonthValues == {2, 4, 12}
NumericValues == {2, 4, 12, 13, 29, 31}

\* A day or month number, with a leading zero or without
Digits(v, pad) == Num(v, IF v >= 10 \/ pad THEN 2 ELSE 1)

\* A year as written and the year it stands for
YearForms == {[tok |-> Num(2023, 4), year |-> 2023],
              [tok |-> Num(2024, 4), year |-> 2024],
              [tok |-> Num(24, 2),   year |-> 2024]}

MonthForms == {[s |-> "feb", w |-> 3, month |-> 2],
               [s |-> "april", w |-> 5, month |-> 4],
               [s |-> "december", w |-> 8, month |-> 12]}

\* What a chunk of text says: its tokens, its surface form, the calendar
\* date it names (year, month, day as written) and, for the numeric
\* A sep B sep Y form, A and B
Chunk(tokens, form, date, a, b) ==
    [tokens |-> tokens, form |-> form, date |-> date, a |-> a, b |-> b]

IsoChunks ==
    {Chunk(<<Num(y, 4), Sep(c), Digits(m, pad), Sep(c), Digits(d, pad)>>,
           "iso", <<y, m, d>>, 0, 0) :
        y \in {2023, 2024}, m \in MonthValues, d \in DayValues,
        c \in {"-", "."}, pad \in BOOLEAN}

\* A numeric date names month A, day B when A <= 12, else day A, month B
\* (spec.md, section 4.1, ambiguity policy)
NumericChunks ==
    {Chunk(<<Digits(a, pad), Sep(c), Digits(b, pad), Sep(c), yf.tok>>,
           "numeric",
           IF a <= 12 THEN <<yf.year, a, b>> ELSE <<yf.year, b, a>>, a, b) :
        a \in NumericValues, b \in NumericValues, yf \in YearForms,
        c \in {"/", "-"}, pad \in BOOLEAN}

CompactChunks ==
    {Chunk(<<Num(y * 10000 + m * 100 + d, 8)>>, "compact", <<y, m, d>>, 0, 0) :
        y \in {2023, 2024}, m \in MonthValues, d \in DayValues}

OrdinalSuffix(suffix) == IF suffix THEN <<Alpha("th", 2, 0)>> ELSE <<>>
OptionalComma(comma) == IF comma THEN <<Comma>> ELSE <<>>

MonthDayYearChunks ==
    {Chunk(<<Alpha(mf.s, mf.w, up), Sp, Digits(d, FALSE)>> \o OrdinalSuffix(suffix)
             \o OptionalComma(comma) \o <<Sp, yf.tok>>,
           "monthDayYear", <<yf.year, mf.month, d>>, 0, 0) :
        mf \in MonthForms, up \in {0, 1}, d \in DayValues,
        suffix \in BOOLEAN, comma \in BOOLEAN, yf \in YearForms}

DayMonthYearChunks ==
    {Chunk(<<Digits(d, FALSE)>> \o OrdinalSuffix(suffix) \o <<Sp>>
             \o (IF of THEN <<Alpha("of", 2, 0), Sp>> ELSE <<>>)
             \o <<Alpha(mf.s, mf.w, 1)>> \o OptionalComma(comma) \o <<Sp, yf.tok>>,
           "dayMonthYear", <<yf.year, mf.month, d>>, 0, 0) :
        mf \in MonthForms, d \in DayValues, of \in BOOLEAN,
        suffix \in BOOLEAN, comma \in BOOLEAN, yf \in YearForms}

MonthYearChunks ==
    {Chunk(<<Alpha(mf.s, mf.w, up), Sp, Num(y, 4)>>,
           "monthYear", <<y, mf.month, 1>>, 0, 0) :
        mf \in MonthForms, up \in {0, 1}, y \in {1999, 2023, 2024}}

NumericMonthYearChunks ==
    {Chunk(<<Digits(m, pad), Sep(c), Num(y, 4)>>,
           "numericMonthYear", <<y, m, 1>>, 0, 0) :
        m \in MonthValues, pad \in BOOLEAN, c \in {"/", "-"}, y \in {2023, 2024}}

DateChunks ==
    IsoChunks \cup NumericChunks \cup CompactChunks \cup MonthDayYearChunks
    \cup DayMonthYearChunks \cup MonthYearChunks \cup NumericMonthYearChunks

\* The labels written before a date and the words written after it
LabelItems == {<<Alpha("dos", 3, 1), Colon>>, <<Alpha("dob", 3, 1), Colon>>,
               <<Alpha("labs", 4, 0)>>}
TrailerItems == {<<Alpha("fax", 3, 1)>>, <<Alpha("visit date", 10, 0)>>}

\* The process's time zone is set before anything is written
DatesTimeZone ==
    /\ pc = "call" /\ text = <<>> /\ tz = 0
    /\ \E z \in TimeZones \ {0} : tz' = z
    /\ UNCHANGED <<pc, text, written, results, parsedDates>>
    /\ UNCHANGED <<clusterVars, classifyVars, selectVars, duplicateVars, llmVars, processVars>>
    /\ UNCHANGED appVars

\* One more label in front of the date
DatesLabel ==
    /\ pc = "call" /\ written = <<>>
    /\ ItemsIn(text) < MaxLabelItems
    /\ \E item \in LabelItems : text' = text \o item \o <<Sp>>
    /\ UNCHANGED <<pc, tz, written, results, parsedDates>>
    /\ UNCHANGED <<clusterVars, classifyVars, selectVars, duplicateVars, llmVars, processVars>>
    /\ UNCHANGED appVars

\* The date
DatesChunk ==
    /\ pc = "call" /\ written = <<>>
    /\ \E chunk \in DateChunks :
          /\ text' = text \o chunk.tokens
          /\ written' = <<chunk>>
    /\ UNCHANGED <<pc, tz, results, parsedDates>>
    /\ UNCHANGED <<clusterVars, classifyVars, selectVars, duplicateVars, llmVars, processVars>>
    /\ UNCHANGED appVars

\* A word after the date
DatesTrailer ==
    /\ pc = "call" /\ written # <<>>
    /\ text[Len(text)].k = "num"
    /\ \E item \in TrailerItems : text' = text \o <<Sp>> \o item
    /\ UNCHANGED <<pc, tz, written, results, parsedDates>>
    /\ UNCHANGED <<clusterVars, classifyVars, selectVars, duplicateVars, llmVars, processVars>>
    /\ UNCHANGED appVars

GetDatesWithContext ==
    /\ pc = "call"
    /\ results' = getDatesWithContext(text)
    /\ parsedDates' = ParsedOf(text)
    /\ pc' = "return"
    /\ UNCHANGED <<tz, text, written>>
    /\ UNCHANGED <<clusterVars, classifyVars, selectVars, duplicateVars, llmVars, processVars>>
    /\ UNCHANGED appVars

NextDates ==
    DatesTimeZone \/ DatesLabel \/ DatesChunk \/ DatesTrailer \/ GetDatesWithContext

SpecDates == Init /\ [][NextDates]_vars


\* The calendar, for stating what a written date is
IsLeapYear(y) == (y % 4 = 0 /\ y % 100 # 0) \/ y % 400 = 0

DaysInMonth(y, m) ==
    IF m = 2 THEN (IF IsLeapYear(y) THEN 29 ELSE 28)
    ELSE IF m \in {4, 6, 9, 11} THEN 30 ELSE 31

IsCalendarDate(date) ==
    date[2] \in 1..12 /\ date[3] \in 1..DaysInMonth(date[1], date[2])

\* The forms that spell out year, month and day
FullDateForms == {"iso", "numeric", "compact", "monthDayYear", "dayMonthYear"}

\* C4: for every valid calendar date written in a full-date surface form,
\* getDatesWithContext returns an entry whose iso is exactly that date,
\* in whatever time zone the process runs.
C4_ExactDateInEveryTimeZone ==
    pc = "return" =>
        \A i \in 1..Len(written) :
            (written[i].form \in FullDateForms /\ IsCalendarDate(written[i].date))
                => \E j \in 1..Len(results) : results[j].iso = written[i].date

\* C5: a date-shaped substring naming no real calendar day (31 April,
\* 30 February, 29 February of a non-leap year) produces no entry in the
\* result of getDatesWithContext.
C5_NoEntryForImpossibleDay ==
    pc = "return" =>
        \A i \in 1..Len(written) :
            (/\ written[i].form \in FullDateForms
             /\ written[i].date[2] \in 1..12
             /\ written[i].date[3] \in 1..31
             /\ ~IsCalendarDate(written[i].date))
                => results = <<>>

\* The day d of month m of year y, counted on into the next month when the
\* month has fewer than d days
C6_DayOfMonth(y, m, d) ==
    IF d <= DaysInMonth(y, m) THEN <<y, m, d>>
    ELSE IF m = 12 THEN <<y + 1, 1, d - DaysInMonth(y, m)>>
    ELSE <<y, m + 1, d - DaysInMonth(y, m)>>

\* C6: a numeric match A sep B sep Y is read by parseDate month-first
\* (month A, day B) whenever A <= 12 and day-first (day A, month B) only
\* when A > 12, whatever the separator, the padding, the year form, the
\* surrounding text and the time zone.
C6_MonthFirstUnlessFirstNumberOver12 ==
    pc = "return" =>
        \A i \in 1..Len(written) :
            (written[i].form = "numeric" /\ (written[i].a <= 12 \/ written[i].b <= 12))
                => \E j \in 1..Len(parsedDates) :
                      /\ parsedDates[j].raw = written[i].tokens
                      /\ parsedDates[j].local =
                            IF written[i].a <= 12
                            THEN C6_DayOfMonth(written[i].date[1], written[i].a, written[i].b)
                            ELSE C6_DayOfMonth(written[i].date[1], written[i].b, written[i].a)

\* 12/04/2023 read as 4 December 2023 in a process east of UTC
C6_Witness ==
    /\ pc = "return" /\ tz = 1
    /\ Len(written) = 1 /\ written[1].form = "numeric"
    /\ written[1].a = 12 /\ written[1].b = 4
    /\ Len(parsedDates) = 1 /\ parsedDates[1].local = <<2023, 12, 4>>

\* 13/04/2024 read as 13 April 2024
C6_WitnessDayFirst ==
    /\ pc = "return"
    /\ Len(written) = 1 /\ written[1].form = "numeric"
    /\ written[1].a = 13 /\ written[1].b = 4
    /\ Len(parsedDates) = 1 /\ parsedDates[1].local = <<2024, 4, 13>>


(***************************************************************************)
(* Specification of GET /api/duplicates: pages are saved to the Page table  *)
(* with their hashes, then a client asks for the duplicates of a document.  *)
(***************************************************************************)
MaxDbPages == 4       \* most rows in the Page table; page numbers are 1..MaxDbPages

Documents == {"doc1", "doc2"}

\* A simhash whose last three hexadecimal digits are n2, n1, n0
Fingerprint(n2, n1, n0) == [k \in 1..13 |-> 0] \o <<n2, n1, n0>>

\* What a page row holds for its text: the two hashes of the text
\* (process/route.ts:315-316), or nothing for a row saved without hashes.
\* The fingerprints of a, b, c, d lie 4, 3 and 4 bits apart in a chain,
\* a and c, b and d 7 bits apart.
PageHashes ==
    {[textHash |-> "",  simHash |-> <<>>],
     [textHash |-> "a", simHash |-> Fingerprint(0, 0, 0)],
     [textHash |-> "b", simHash |-> Fingerprint(0, 0, 15)],
     [textHash |-> "c", simHash |-> Fingerprint(0, 7, 15)],
     [textHash |-> "d", simHash |-> Fingerprint(7, 15, 15)]}

\* The document asked about holds any of these; the pages of the other
\* document all hold the text of a
PageHashesOf(documentId) ==
    IF documentId = "doc1" THEN PageHashes
    ELSE {h \in PageHashes : h.textHash = "a"}

\* migration.sql: a row of Page; (documentId, pageNumber) is unique and
\* the id is unique
PageRow(documentId, pageNumber, hashes) ==
    [id         |-> <<"page", documentId, pageNumber>>,
     documentId |-> documentId,
     pageNumber |-> pageNumber,
     textHash   |-> hashes.textHash,
     simHash    |-> hashes.simHash]

\* One more row in the Page table
SavePage ==
    /\ pc = "call"
    /\ Cardinality(dbPages) < MaxDbPages
    /\ \E d \in Documents, n \in 1..MaxDbPages :
       \E h \in PageHashesOf(d) :
          /\ \A r \in dbPages : ~(r.documentId = d /\ r.pageNumber = n)
          /\ dbPages' = dbPages \cup {PageRow(d, n, h)}
    /\ UNCHANGED <<pc, duplicates>>
    /\ UNCHANGED <<clusterVars, classifyVars, selectVars, datesVars, llmVars, processVars>>
    /\ UNCHANGED appVars

GetDuplicates ==
    /\ pc = "call"
    /\ \E d \in {"", "doc1"} : duplicates' = DuplicatesGET(dbPages, d)
    /\ pc' = "return"
    /\ UNCHANGED dbPages
    /\ UNCHANGED <<clusterVars, classifyVars, selectVars, datesVars, llmVars, processVars>>
    /\ UNCHANGED appVars

NextDuplicates == SavePage \/ GetDuplicates

SpecDuplicates == Init /\ [][NextDuplicates]_vars

\* The pages of the answered document that hold text hash h
C10_Class(h) ==
    {r \in dbPages : r.documentId = duplicates.documentId /\ r.textHash = h}

\* The text hashes held by two or more pages of the answered document
C10_SharedHashes ==
    {h \in {r.textHash : r \in dbPages} \ {""} : Cardinality(C10_Class(h)) >= 2}

\* Group g is the class of text hash h: every member listed once with
\* similarity 1.0, the member with the lowest page number as primary
C10_GroupIsClass(g, h) ==
    LET class == C10_Class(h) IN
    /\ Len(g.pages) = Cardinality(class)
    /\ {[id |-> g.pages[k].id, pageNumber |-> g.pages[k].pageNumber] : k \in 1..Len(g.pages)}
          = {[id |-> r.id, pageNumber |-> r.pageNumber] : r \in class}
    /\ \A k \in 1..Len(g.pages) : g.pages[k].similarity = SimHashBits
    /\ \E r \in class :
          /\ \A q \in class : r.pageNumber <= q.pageNumber
          /\ g.primaryPageId = r.id
          /\ g.primaryPageNumber = r.pageNumber

\* C10: the exact groups of GET /api/duplicates are exactly the classes of
\* pages with equal non-null textHash that have two or more members; each
\* group lists every member with similarity 1.0 and has the member with
\* the lowest page number as primary.
C10_ExactGroupsAreHashClasses ==
    (pc = "return" /\ duplicates.status = 200) =>
        /\ Len(duplicates.exactDuplicates) = Cardinality(C10_SharedHashes)
        /\ \A h \in C10_SharedHashes :
              \E k \in 1..Len(duplicates.exactDuplicates) :
                  C10_GroupIsClass(duplicates.exactDuplicates[k], h)

\* Pages 2 and 3 of the document hold the same text hash, page 1 was
\* saved without hashes
C10_Witness ==
    /\ pc = "return" /\ duplicates.status = 200
    /\ Len(duplicates.exactDuplicates) = 1
    /\ duplicates.exactDuplicates[1].primaryPageNumber = 2
    /\ Len(duplicates.exactDuplicates[1].pages) = 2
    /\ \E r \in dbPages : r.documentId = "doc1" /\ r.pageNumber = 1 /\ r.textHash = ""


\* The page ids listed by the groups of a response, group after group
RECURSIVE C11_ListedIds(_, _)
C11_ListedIds(groups, g) ==
    IF g > Len(groups) THEN <<>>
    ELSE [k \in 1..Len(groups[g].pages) |-> groups[g].pages[k].id]
         \o C11_ListedIds(groups, g + 1)

\* C11: in one GET /api/duplicates response no page id appears in more
\* than one group: exact groups are pairwise disjoint, near groups are
\* pairwise disjoint, and no page of an exact group is in a near group.
C11_NoPageInTwoGroups ==
    (pc = "return" /\ duplicates.status = 200) =>
        LET ids == C11_ListedIds(duplicates.exactDuplicates \o duplicates.nearDuplicates, 1)
        IN  \A i, j \in 1..Len(ids) : ids[i] = ids[j] => i = j

\* An exact group and a near group in one response, the pages of the exact
\* group similar to those of the near group
C11_Witness ==
    /\ pc = "return" /\ duplicates.status = 200
    /\ Len(duplicates.exactDuplicates) = 1
    /\ Len(duplicates.nearDuplicates) = 1
    /\ \E r, q \in dbPages :
          /\ r.documentId = "doc1" /\ q.documentId = "doc1"
          /\ r.textHash = "a" /\ q.textHash = "b"

\* Two near groups in one response
C11_WitnessTwoNearGroups ==
    /\ pc = "return" /\ duplicates.status = 200
    /\ Len(duplicates.nearDuplicates) = 2

\* The bits in which two fingerprints differ
C12_Distance(hash1, hash2) ==
    Cardinality({<<k, i>> \in (1..16) \X (0..3) :
                    (hash1[k] \div (2 ^ i)) % 2 # (hash2[k] \div (2 ^ i)) % 2})

\* The stored row of a listed page
C12_Row(id) == CHOOSE r \in dbPages : r.id = id

\* C12: every near-duplicate group of GET /api/duplicates has at least two
\* members; its primary is the member with the lowest page number and
\* reports similarity 1.0; every other member reports the similarity of
\* its fingerprint to the primary's, which is at least 0.9.
C12_NearGroupsWellFormed ==
    (pc = "return" /\ duplicates.status = 200) =>
        \A g \in 1..Len(duplicates.nearDuplicates) :
            LET group == duplicates.nearDuplicates[g] IN
            /\ Len(group.pages) >= 2
            /\ \E k \in 1..Len(group.pages) :
                  /\ group.pages[k].id = group.primaryPageId
                  /\ group.pages[k].pageNumber = group.primaryPageNumber
                  /\ group.pages[k].similarity = SimHashBits
            /\ \A k \in 1..Len(group.pages) :
                  /\ group.pages[k].pageNumber >= group.primaryPageNumber
                  /\ C12_Row(group.pages[k].id).pageNumber = group.pages[k].pageNumber
                  /\ group.pages[k].id # group.primaryPageId =>
                        /\ group.pages[k].similarity =
                              SimHashBits - C12_Distance(C12_Row(group.primaryPageId).simHash,
                                                         C12_Row(group.pages[k].id).simHash)
                        /\ group.pages[k].similarity * 10 >= 9 * SimHashBits

\* A near group of three pages around its primary, the members 3 and 4
\* bits from it
C12_Witness ==
    /\ pc = "return" /\ duplicates.status = 200
    /\ Len(duplicates.nearDuplicates) = 1
    /\ Len(duplicates.nearDuplicates[1].pages) = 3
    /\ \E k \in 1..3 : duplicates.nearDuplicates[1].pages[k].similarity = SimHashBits - 3
    /\ \E k \in 1..3 : duplicates.nearDuplicates[1].pages[k].similarity = SimHashBits - 4


(***************************************************************************)
(* Specification of buildClusters: the caller assembles pages in any order  *)
(* and applies the function to them.                                        *)
(***************************************************************************)

\* The pages given to buildClusters: those of a request, and one of the
\* year before
BuildPages ==
    RequestPages \cup {RequestPage(n, [d |-> <<2023, 12, 31>>, s |-> "llm"]) : n \in 1..MaxPageNo}

\* The next page of the argument, its page number not yet used
BuildInput ==
    /\ pc = "call"
    /\ Len(pages) < MaxReqPages
    /\ \E p \in BuildPages :
          /\ \A k \in 1..Len(pages) : pages[k].pageNumber # p.pageNumber
          /\ pages' = Append(pages, p)
    /\ UNCHANGED <<pc, result, request, response>>
    /\ UNCHANGED <<classifyVars, selectVars, datesVars, duplicateVars, llmVars, processVars>>
    /\ UNCHANGED appVars

BuildClusters ==
    /\ pc = "call"
    /\ result' = buildClusters(pages)
    /\ pc' = "return"
    /\ UNCHANGED <<pages, request, response>>
    /\ UNCHANGED <<classifyVars, selectVars, datesVars, duplicateVars, llmVars, processVars>>
    /\ UNCHANGED appVars

NextBuild == BuildInput \/ BuildClusters

SpecBuild == Init /\ [][NextBuild]_vars

\* Date a is an earlier calendar day than date b
C13_Earlier(a, b) ==
    \/ a[1] < b[1]
    \/ a[1] = b[1] /\ a[2] < b[2]
    \/ a[1] = b[1] /\ a[2] = b[2] /\ a[3] < b[3]

\* C13: buildClusters returns one cluster per distinct dateOfService of the
\* pages given to it, in strictly ascending calendar order of
\* dateOfService, whatever the order of the pages.
C13_OneClusterPerDateAscending ==
    pc = "return" =>
        /\ {result[c].dateOfService : c \in 1..Len(result)}
              = {pages[k].dateOfService : k \in 1..Len(pages)} \ {NullDate}
        /\ \A c \in 1..Len(result) :
              c < Len(result) =>
                  C13_Earlier(result[c].dateOfService, result[c + 1].dateOfService)

\* Three pages whose dates come latest first: three clusters, earliest first
C13_Witness ==
    /\ pc = "return"
    /\ Len(pages) = 3 /\ Len(result) = 3
    /\ pages[1].dateOfService = <<2024, 3, 1>>
    /\ pages[2].dateOfService = <<2024, 1, 5>>
    /\ pages[3].dateOfService = <<2023, 12, 31>>
    /\ result[1].dateOfService = <<2023, 12, 31>>

\* The request's pages have distinct page numbers
C14_DistinctPageNumbers ==
    \A i, j \in 1..Len(request) :
        request[i].pageNumber = request[j].pageNumber => i = j

\* C14: in the result of POST /api/cluster, whatever the order of the
\* pages in the request, each cluster's primaryPage is the smallest page
\* number among the cluster's pages and its documentType is the
\* documentType of that page.
C14_PrimaryIsLowestPage ==
    (pc = "return" /\ response.status = 200 /\ C14_DistinctPageNumbers) =>
        \A c \in 1..Len(response.result.clusters) :
            LET cluster == response.result.clusters[c] IN
            /\ \E m \in 1..Len(cluster.pages) : cluster.pages[m] = cluster.primaryPage
            /\ \A m \in 1..Len(cluster.pages) : cluster.primaryPage <= cluster.pages[m]
            /\ \E i \in 1..Len(request) :
                  /\ request[i].pageNumber = cluster.primaryPage
                  /\ request[i].documentType = cluster.documentType

\* A request that lists page 3 before page 1, both in one cluster
C14_Witness ==
    /\ pc = "return" /\ response.status = 200 /\ C14_DistinctPageNumbers
    /\ Len(request) >= 2
    /\ request[1].pageNumber = 3 /\ request[2].pageNumber = 1
    /\ \E c \in 1..Len(response.result.clusters) :
          /\ response.result.clusters[c].primaryPage = 1
          /\ \E m \in 1..Len(response.result.clusters[c].pages) :
                response.result.clusters[c].pages[m] = 3


(***************************************************************************)
(* Specification of a repeated run: the caller gives the pages returned by  *)
(* applyInheritance to applyInheritance once more.                          *)
(***************************************************************************)

\* The second run: its argument is the result of the first
ApplyInheritanceAgain ==
    /\ pc = "return"
    /\ pages' = result
    /\ result' = applyInheritance(result)
    /\ pc' = "again"
    /\ UNCHANGED <<request, response>>
    /\ UNCHANGED <<classifyVars, selectVars, datesVars, duplicateVars, llmVars, processVars>>
    /\ UNCHANGED appVars

NextInheritTwice == InheritInput \/ ApplyInheritance \/ ApplyInheritanceAgain

SpecInheritTwice == Init /\ [][NextInheritTwice]_vars

C16_SecondRunChangesNothing ==
    pc = "again" =>
        /\ Len(result) = Len(pages)
        /\ \A i \in 1..Len(pages) :
              /\ result[i].pageNumber = pages[i].pageNumber
              /\ result[i].dateOfService = pages[i].dateOfService
              /\ result[i].dateSource = pages[i].dateSource
              /\ result[i].inheritedFrom = pages[i].inheritedFrom

\* After the second run of a sequence in which two pages inherited from the
\* first page in the first run
C16_Witness ==
    /\ pc = "again"
    /\ Len(result) = 3
    /\ result[1].dateSource = "heuristic"
    /\ result[2].dateSource = "inherited" /\ result[2].inheritedFrom = result[1].pageNumber
    /\ result[3].dateSource = "inherited" /\ result[3].inheritedFrom = result[1].pageNumber


\* C17: a month+year-only match (Mon YYYY such as Jan 2024 or September
\* 1999, and MM/YYYY) is parsed to the first day of the written month in
\* the written four-digit year.
C17_MonthYearIsFirstOfMonth ==
    pc = "return" =>
        \A i \in 1..Len(written) :
            written[i].form \in {"monthYear", "numericMonthYear"}
                => \E j \in 1..Len(parsedDates) :
                      /\ parsedDates[j].raw = written[i].tokens
                      /\ parsedDates[j].local =
                            <<written[i].date[1], written[i].date[2], 1>>

(***************************************************************************)
(* LLM classification: classifyPage and POST /api/classify                 *)
(* (src/app/api/duplicates/[pageId]/route.ts)                              *)
(***************************************************************************)

\* A request page that carries no pageId
NoPageId == <<>>

\* An event as the model writes it; isPrimary and confidence are optional
\* (route.ts:325-326), given names those present
LlmEvent(date, summary, type, given, isPrimary, confidence) ==
    [date |-> date, summary |-> summary, type |-> type, given |-> given,
     isPrimary |-> isPrimary, confidence |-> confidence]

VisitEvent == LlmEvent(<<2024, 1, 5>>, "office visit", "visit",
                       {"isPrimary", "confidence"}, TRUE, 95)
LabEvent   == LlmEvent(<<2023, 12, 20>>, "labs drawn", "lab", {}, FALSE, 0)

\* The JSON values the model's text can spell: null, and objects with or
\* without the keys events and documentType ("" when the key is missing)
JsonNull == [t |-> "null", hasEvents |-> FALSE, events |-> <<>>, documentType |-> ""]
JsonObject(hasEvents, events, documentType) ==
    [t |-> "object", hasEvents |-> hasEvents, events |-> events,
     documentType |-> documentType]

JsonValues ==
    <<JsonNull,
      JsonObject(FALSE, <<>>, ""),
      JsonObject(TRUE, <<VisitEvent>>, "Progress Note"),
      JsonObject(TRUE, <<VisitEvent, LabEvent>>, "")>>

\* Tokens of the text of an LLM response: the three-backquote fence, the characters of
\* JsonValues[n], and prose
Fence       == [k |-> "fence", v |-> 0, w |-> 3, s |-> "fence"]
JsonText(n) == [k |-> "json",  v |-> n, w |-> 2, s |-> "{}"]
JsonWord    == Alpha("json", 4, 0)
Prose       == Alpha("Sure", 4, 0)

\* route.ts:308-312
StripOpeningFence(t) ==
    IF Len(t) >= 2 /\ t[1] = Fence /\ t[2] = JsonWord THEN SubSeq(t, 3, Len(t))
    ELSE IF Len(t) >= 1 /\ t[1] = Fence THEN Tail(t)
    ELSE t

\* route.ts:313-315
StripClosingFence(t) ==
    IF Len(t) >= 1 /\ t[Len(t)] = Fence THEN SubSeq(t, 1, Len(t) - 1) ELSE t

\* route.ts:305-316
StripFences(t) == Trim(StripClosingFence(StripOpeningFence(Trim(t))))

\* route.ts:319, JSON.parse: the text must spell one JSON value and nothing
\* else; anything else throws a SyntaxError
JsonParse(t) ==
    IF Len(t) = 1 /\ t[1].k = "json"
    THEN [ok |-> TRUE, value |-> JsonValues[t[1].v]]
    ELSE [ok |-> FALSE, value |-> JsonNull]

\* route.ts:321-335, one element of the map
ExtractedEventOf(e) ==
    [date       |-> e.date,
     summary    |-> e.summary,
     type       |-> e.type,
     isPrimary  |-> IF "isPrimary" \in e.given THEN e.isPrimary ELSE FALSE,
     confidence |-> IF "confidence" \in e.given THEN e.confidence ELSE 50]

\* route.ts:344-350, the catch block
PageFailure(page) ==
    [pageNumber |-> page.pageNumber, pageId |-> page.pageId,
     events |-> <<>>, documentType |-> ""]

\* route.ts:297-352; out is what model.generateContent does for the page.
\* Reading .events of null throws a TypeError, caught like every other throw.
classifyPage(page, out) ==
    IF out.throws THEN PageFailure(page)
    ELSE LET parsed == JsonParse(StripFences(out.text))
         IN  IF ~parsed.ok \/ parsed.value.t = "null" THEN PageFailure(page)
             ELSE [pageNumber   |-> page.pageNumber,
                   pageId       |-> page.pageId,
                   events       |-> [k \in 1..Len(parsed.value.events) |->
                                        ExtractedEventOf(parsed.value.events[k])],
                   documentType |-> parsed.value.documentType]

\* route.ts:457
BATCH_SIZE == 5

\* A failure of the environment: the operation that fails and, for the
\* per-page update, the index of the result it fails for
Fault(op, at) == [op |-> op, at |-> at]

\* Promise.all settles in any order and resolves to the results in the
\* order of the calls; this is the order of settling when the last call
\* settles first
BatchInSettleOrder(batch, outs) ==
    [k \in 1..Len(batch) |->
        classifyPage(batch[Len(batch) + 1 - k], outs[Len(batch) + 1 - k])]

\* route.ts:464-466
BatchResults(batch, outs) ==
    [k \in 1..Len(batch) |-> classifyPage(batch[k], outs[k])]

\* route.ts:461-468, the batches from index i (1-based) on
RECURSIVE ClassifyFrom(_, _, _)
ClassifyFrom(enriched, outs, i) ==
    IF i > Len(enriched) THEN <<>>
    ELSE LET j == IF i + BATCH_SIZE - 1 < Len(enriched)
                  THEN i + BATCH_SIZE - 1 ELSE Len(enriched)
         IN  BatchResults(SubSeq(enriched, i, j), SubSeq(outs, i, j))
                \o ClassifyFrom(enriched, outs, j + 1)

\* route.ts:425-448: the id of the row of the page number, for a page sent
\* without one; pageMap is read only when some page has no pageId
EnrichedPage(p, table, documentId) ==
    IF p.pageId # NoPageId THEN p
    ELSE IF \E r \in table : r.documentId = documentId /\ r.pageNumber = p.pageNumber
    THEN [p EXCEPT !.pageId =
             (CHOOSE r \in table : r.documentId = documentId
                                   /\ r.pageNumber = p.pageNumber).id]
    ELSE p

\* route.ts:487-499, the rows pushed for one result
EventRowsOf(documentId, res) ==
    [k \in 1..Len(res.events) |->
        [documentId |-> documentId,
         pageId     |-> res.pageId,
         date       |-> res.events[k].date,
         summary    |-> res.events[k].summary,
         type       |-> res.events[k].type,
         isPrimary  |-> res.events[k].isPrimary,
         confidence |-> res.events[k].confidence,
         source     |-> "llm",
         llmModel   |-> "gemini-2.0-flash"]]

\* route.ts:486-500
RECURSIVE EventsToCreate(_, _)
EventsToCreate(documentId, rs) ==
    IF rs = <<>> THEN <<>>
    ELSE EventRowsOf(documentId, Head(rs)) \o EventsToCreate(documentId, Tail(rs))

\* route.ts:502-511: prisma.page.update sets llmAnalyzed of the row of each
\* result that has a pageId; an update that throws (the write fails, or no
\* row has the id) is logged and the loop goes on
MarkedBy(rs, table, flt) ==
    {rs[k].pageId : k \in {i \in 1..Len(rs) :
        /\ rs[i].pageId # NoPageId
        /\ Fault("page.update", i) \notin flt
        /\ \E r \in table : r.id = rs[i].pageId}}

\* route.ts:354-548, the handler: the response and what it leaves in the
\* Page and DateEvent tables
ClassifyPOST(body, outs, table, marks, events, flt) ==
    LET unchanged(status, error) ==
            [response   |-> [status |-> status, error |-> error],
             analyzed   |-> marks,
             dateEvents |-> events]
        enriched == [k \in 1..Len(body.pages) |->
                        EnrichedPage(body.pages[k], table, body.documentId)]
        rs       == ClassifyFrom(enriched, outs, 1)
        toCreate == EventsToCreate(body.documentId, rs)
        marked   == marks \cup MarkedBy(rs, table, flt)
    IN  IF body.documentId = "" THEN unchanged(400, "documentId is required")
        ELSE IF body.pages = <<>>
        THEN unchanged(400, "No pages provided for classification")
        ELSE IF Fault("GEMINI_API_KEY", 0) \in flt
        THEN unchanged(500, "GEMINI_API_KEY not configured")
        ELSE IF Fault("document.findUnique", 0) \in flt
        THEN unchanged(500, "Database error looking up document")
        ELSE IF body.documentId \notin Documents
        THEN unchanged(404, "Document not found")
        ELSE IF /\ \E k \in 1..Len(body.pages) : body.pages[k].pageId = NoPageId
                /\ Fault("page.findMany", 0) \in flt
        THEN unchanged(500, "Database error fetching pages")
        ELSE IF toCreate # <<>> /\ Fault("dateEvent.createMany", 0) \in flt
        THEN [response   |-> [status |-> 500,
                              error  |-> "Failed to save events to database"],
              analyzed   |-> marked,
              dateEvents |-> events]
        ELSE [response   |-> [status        |-> 200,
                              success       |-> TRUE,
                              results       |-> rs,
                              eventsCreated |-> Len(toCreate)],
              analyzed   |-> marked,
              dateEvents |-> events \o toCreate]

(***************************************************************************)
(* Specification of POST /api/classify: a client names a document and adds *)
(* pages to the request; for each page the model's behaviour is fixed;     *)
(* then the handler runs, with the failures of the environment chosen.     *)
(***************************************************************************)
MaxLlmPages == 2

\* The document ids a request can carry: none, a stored one, an unknown one
RequestDocumentIds == {"", "doc1", "doc9"}

\* What model.generateContent does for a page: it throws, or resolves to a
\* text; meant is the index in JsonValues of the object the text carries
\* when it is a JSON object alone or inside a fence, and 0 otherwise
LlmOutcome(throws, t, meant) == [throws |-> throws, text |-> t, meant |-> meant]

LlmOutcomes ==
    {LlmOutcome(TRUE, <<>>, 0),
     LlmOutcome(FALSE, <<Prose, Sp, JsonText(3)>>, 0),
     LlmOutcome(FALSE, <<JsonText(1)>>, 0),
     LlmOutcome(FALSE, <<JsonText(2)>>, 2),
     LlmOutcome(FALSE, <<JsonText(3), Sp>>, 3),
     LlmOutcome(FALSE, <<Fence, Sp, JsonText(3), Fence>>, 3),
     LlmOutcome(FALSE, <<Sp, Fence, JsonWord, Sp, JsonText(4), Sp, Fence, Sp>>, 4)}

\* The failures of one request: at most one failing step other than the
\* per-page updates, and at most one failing per-page update
FaultSets(n) ==
    {a \cup b :
        a \in {{}} \cup {{Fault(op, 0)} : op \in {"GEMINI_API_KEY",
                  "document.findUnique", "page.findMany", "dateEvent.createMany"}},
        b \in {{}} \cup {{Fault("page.update", i)} : i \in 1..n}}

ClassifyDocument ==
    /\ pc = "call"
    /\ classifyRequest = NoClassifyRequest
    /\ \E d \in RequestDocumentIds \ {""} :
          classifyRequest' = [classifyRequest EXCEPT !.documentId = d]
    /\ UNCHANGED <<pc, llmOutputs, analyzed, dateEvents, classifyResponse>>
    /\ UNCHANGED <<clusterVars, classifyVars, selectVars, datesVars, duplicateVars,
                   processVars>>
    /\ UNCHANGED appVars

\* One more page in the request: page Len + 1 of doc1, stored or not, sent
\* with its id or without
ClassifyInput ==
    /\ pc = "call"
    /\ Len(classifyRequest.pages) < MaxLlmPages
    /\ LET n   == Len(classifyRequest.pages) + 1
           row == PageRow("doc1", n, CHOOSE h \in PageHashes : h.textHash = "a")
       IN  \E stored \in BOOLEAN, sent \in BOOLEAN, out \in LlmOutcomes :
              /\ sent => stored
              /\ classifyRequest' =
                    [classifyRequest EXCEPT !.pages =
                        Append(@, [pageNumber |-> n,
                                   pageId |-> IF sent THEN row.id ELSE NoPageId])]
              /\ llmOutputs' = Append(llmOutputs, out)
              /\ dbPages' = IF stored THEN dbPages \cup {row} ELSE dbPages
    /\ UNCHANGED <<pc, analyzed, dateEvents, classifyResponse, duplicates>>
    /\ UNCHANGED <<clusterVars, classifyVars, selectVars, datesVars, processVars>>
    /\ UNCHANGED appVars

PostClassify ==
    /\ pc = "call"
    /\ \E flt \in FaultSets(Len(classifyRequest.pages)) :
          LET r == ClassifyPOST(classifyRequest, llmOutputs, dbPages,
                                analyzed, dateEvents, flt)
          IN  /\ faults' = flt
              /\ classifyResponse' = r.response
              /\ analyzed' = r.analyzed
              /\ dateEvents' = r.dateEvents
    /\ pc' = "return"
    /\ UNCHANGED <<classifyRequest, llmOutputs, processRequest, ocrFiles, processResponse>>
    /\ UNCHANGED <<clusterVars, classifyVars, selectVars, datesVars, duplicateVars>>
    /\ UNCHANGED appVars

NextLlm == ClassifyDocument \/ ClassifyInput \/ PostClassify

SpecLlm == Init /\ [][NextLlm]_vars

\* What the call of a page returned, as the result must report it
C18_Reports(res, out) ==
    IF out.meant = 0 THEN res.events = <<>> /\ res.documentType = ""
    ELSE LET obj == JsonValues[out.meant]
         IN  /\ Len(res.events) = Len(obj.events)
             /\ \A k \in 1..Len(obj.events) :
                   /\ res.events[k].date = obj.events[k].date
                   /\ res.events[k].summary = obj.events[k].summary
                   /\ res.events[k].type = obj.events[k].type
                   /\ "isPrimary" \in obj.events[k].given
                         => res.events[k].isPrimary = obj.events[k].isPrimary
                   /\ "confidence" \in obj.events[k].given
                         => res.events[k].confidence = obj.events[k].confidence
             /\ res.documentType = obj.documentType

\* The request is well formed and no step other than LLM calls and per-page
\* updates fails
C18_NothingElseFails ==
    /\ classifyRequest.documentId \in Documents
    /\ classifyRequest.pages # <<>>
    /\ \A f \in faults : f.op = "page.update"

\* C18: POST /api/classify answers with one result per requested page, in
\* request order; the result of a page whose LLM call throws or returns
\* unparsable output has events = [] and documentType = null, and every
\* other result reports exactly the events its own call returned; LLM
\* failures never make the request fail.
C18_OneResultPerPageIsolated ==
    pc = "return" =>
       /\ C18_NothingElseFails => classifyResponse.status = 200
       /\ classifyResponse.status = 200 =>
             /\ Len(classifyResponse.results) = Len(classifyRequest.pages)
             /\ \A i \in 1..Len(classifyRequest.pages) :
                   /\ classifyResponse.results[i].pageNumber
                         = classifyRequest.pages[i].pageNumber
                   /\ C18_Reports(classifyResponse.results[i], llmOutputs[i])

\* A successful request with a page whose call returned unparsable text
\* before a page that reports its own events
C18_Witness ==
    /\ pc = "return"
    /\ classifyResponse.status = 200
    /\ \E i, j \in 1..Len(classifyRequest.pages) :
          /\ i < j
          /\ ~llmOutputs[i].throws /\ llmOutputs[i].meant = 0
          /\ llmOutputs[j].meant # 0
          /\ classifyResponse.results[j].events # <<>>

\* The same with a call that threw after a page that reports two events
C18_WitnessThrow ==
    /\ pc = "return"
    /\ classifyResponse.status = 200
    /\ \E i, j \in 1..Len(classifyRequest.pages) :
          /\ i < j
          /\ Len(classifyResponse.results[i].events) = 2
          /\ llmOutputs[j].throws

\* The id of the row of requested page i, NoPageId if the request does not
\* give it and the document has no row of that page number
C19_PageId(i) ==
    EnrichedPage(classifyRequest.pages[i], dbPages, classifyRequest.documentId).pageId

\* The events the call of requested page i returned
C19_Extracted(i) ==
    IF llmOutputs[i].meant = 0 THEN <<>> ELSE JsonValues[llmOutputs[i].meant].events

\* Every event extracted for requested page i is a row of DateEvent
C19_EventsStored(i) ==
    \A k \in 1..Len(C19_Extracted(i)) :
       \E j \in 1..Len(dateEvents) :
          /\ dateEvents[j].pageId = C19_PageId(i)
          /\ dateEvents[j].date = C19_Extracted(i)[k].date
          /\ dateEvents[j].summary = C19_Extracted(i)[k].summary
          /\ dateEvents[j].type = C19_Extracted(i)[k].type

\* C19: when a POST /api/classify request has ended, with success or with
\* an error at any step, no requested page is marked llmAnalyzed = true
\* while events extracted for it in the request are missing from the
\* DateEvent table.
C19_MarkedPagesHaveTheirEvents ==
    pc = "return" =>
       \A i \in 1..Len(classifyRequest.pages) :
          C19_PageId(i) \in analyzed => C19_EventsStored(i)

\* The case of C19 when every write succeeds: a marked page whose two
\* events are stored
C19_MarkedWithEvents ==
    /\ pc = "return"
    /\ classifyResponse.status = 200
    /\ \E i \in 1..Len(classifyRequest.pages) :
          /\ C19_PageId(i) \in analyzed
          /\ Len(C19_Extracted(i)) = 2
          /\ C19_EventsStored(i)

(***************************************************************************)
(* OCR processing: POST /api/process (src/app/api/process/route.ts)        *)
(***************************************************************************)

\* The Document rows: the filename of each stored document
FilenameOf(documentId) == IF documentId = "doc1" THEN "a.pdf" ELSE "b.pdf"

\* route.ts:179-187: findUnique by id when the request has a documentId,
\* findFirst by filename otherwise; "" when there is no such document
FindDocument(body) ==
    IF body.documentId # ""
    THEN IF body.documentId \in Documents THEN body.documentId ELSE ""
    ELSE IF \E d \in Documents : FilenameOf(d) = body.filename
    THEN CHOOSE d \in Documents : FilenameOf(d) = body.filename
    ELSE ""

\* route.ts:293, jsonFiles.sort by name: one more file in a sorted list
RECURSIVE InsertByName(_, _)
InsertByName(sorted, f) ==
    IF sorted = <<>> THEN <<f>>
    ELSE IF f.name < Head(sorted).name THEN <<f>> \o sorted
    ELSE <<Head(sorted)>> \o InsertByName(Tail(sorted), f)

RECURSIVE SortByName(_)
SortByName(files) ==
    IF files = <<>> THEN <<>>
    ELSE InsertByName(SortByName(SubSeq(files, 1, Len(files) - 1)), files[Len(files)])

\* route.ts:295-334: the pages of the files from index i on, numbered from
\* globalPageNumber + 1; the text of a page is held as its two hashes
RECURSIVE PageDataFrom(_, _, _)
PageDataFrom(files, i, globalPageNumber) ==
    IF i > Len(files) THEN <<>>
    ELSE LET responses == files[i].responses
         IN  [k \in 1..Len(responses) |->
                 [pageNumber |-> globalPageNumber + k, hashes |-> responses[k]]]
             \o PageDataFrom(files, i + 1, globalPageNumber + Len(responses))

\* route.ts:339-345: the first entry of each page number, in order
RECURSIVE UniquePages(_)
UniquePages(ps) ==
    IF ps = <<>> THEN <<>>
    ELSE LET rest == UniquePages(SubSeq(ps, 1, Len(ps) - 1))
             last == ps[Len(ps)]
         IN  IF \E k \in 1..Len(rest) : rest[k].pageNumber = last.pageNumber
             THEN rest ELSE Append(rest, last)

\* route.ts:352-369: the tables as the writes of the transaction's callback
\* leave them when it throws or ends; createMany of many rows is sent in
\* several statements, so it can throw with the first at rows written
InsideTransaction(table, events, documentId, ps, flt) ==
    LET others  == {r \in table : r.documentId # documentId}
        kept    == SelectSeq(events, LAMBDA e : e.documentId # documentId)
        rows(n) == {PageRow(documentId, ps[k].pageNumber, ps[k].hashes) : k \in 1..n}
    IN  IF Fault("tx.dateEvent.deleteMany", 0) \in flt
        THEN [dbPages |-> table, dateEvents |-> events]
        ELSE IF Fault("tx.page.deleteMany", 0) \in flt
        THEN [dbPages |-> table, dateEvents |-> kept]
        ELSE IF \E f \in flt : f.op = "tx.page.createMany"
        THEN [dbPages    |-> others \cup rows((CHOOSE f \in flt :
                                                  f.op = "tx.page.createMany").at),
              dateEvents |-> kept]
        ELSE [dbPages |-> others \cup rows(Len(ps)), dateEvents |-> kept]

TransactionThrows(flt) ==
    \E f \in flt : f.op \in {"tx.dateEvent.deleteMany", "tx.page.deleteMany",
                             "tx.page.createMany", "tx.commit"}

\* The same writes sent without a transaction: what is written stays
WithoutTransaction(stored, inside, throws) == inside

\* route.ts:351-370, prisma.$transaction: the writes of the callback are
\* committed together, and rolled back when it throws
Transaction(stored, inside, throws) == IF throws THEN stored ELSE inside

\* route.ts:161-409, the handler: the response and what it leaves in the
\* Page and DateEvent tables
ProcessPOST(body, files, table, events, flt) ==
    LET untouched(status, error) ==
            [response   |-> [status |-> status, error |-> error],
             dbPages    |-> table,
             dateEvents |-> events]
        documentId == FindDocument(body)
        stored     == FindManyPages(table, documentId)
        jsonFiles  == SortByName(files)
        ocrPages   == PageDataFrom(jsonFiles, 1, 0)
        deduplicatedPages == UniquePages(ocrPages)
        saved      == Transaction([dbPages |-> table, dateEvents |-> events],
                                  InsideTransaction(table, events, documentId,
                                                    deduplicatedPages, flt),
                                  TransactionThrows(flt))
    IN  IF body.filename = "" /\ body.documentId = ""
        THEN untouched(400, "filename or documentId is required")
        ELSE IF Fault("document.find", 0) \in flt
        THEN untouched(500, "Database error")
        ELSE IF documentId = "" THEN untouched(404, "Document not found")
        ELSE IF stored # <<>>
        THEN [response   |-> [status     |-> 200,
                              success    |-> TRUE,
                              documentId |-> documentId,
                              pages      |-> [k \in 1..Len(stored) |->
                                                 [pageNumber |-> stored[k].pageNumber,
                                                  textHash   |-> stored[k].textHash]],
                              totalPages |-> Len(stored),
                              fromCache  |-> TRUE],
              dbPages    |-> table,
              dateEvents |-> events]
        ELSE IF \E f \in flt : f.op \in {"storage.deleteFiles", "asyncBatchAnnotateFiles",
                                         "operation.promise", "storage.getFiles"}
        THEN untouched(500, "Failed to process document")
        ELSE IF jsonFiles = <<>> THEN untouched(500, "No OCR output found")
        ELSE IF \E f \in flt : f.op \in {"file.download", "JSON.parse"}
        THEN untouched(500, "Failed to process document")
        ELSE IF TransactionThrows(flt)
        THEN [response   |-> [status |-> 500,
                              error  |-> "Failed to save pages to database"],
              dbPages    |-> saved.dbPages,
              dateEvents |-> saved.dateEvents]
        ELSE IF Fault("document.update", 0) \in flt
        THEN [response   |-> [status |-> 500, error |-> "Failed to process document"],
              dbPages    |-> saved.dbPages,
              dateEvents |-> saved.dateEvents]
        ELSE [response   |-> [status     |-> 200,
                              success    |-> TRUE,
                              documentId |-> documentId,
                              pages      |-> [k \in 1..Len(ocrPages) |->
                                                 [pageNumber |-> ocrPages[k].pageNumber,
                                                  textHash   |-> ocrPages[k].hashes.textHash]],
                              totalPages |-> Len(ocrPages),
                              fromCache  |-> FALSE],
              dbPages    |-> saved.dbPages,
              dateEvents |-> saved.dateEvents]

(***************************************************************************)
(* Specification of POST /api/process: pages may be stored already, a      *)
(* client names a document, the OCR job's output files are fixed, then the *)
(* handler runs, with the failure of the environment chosen.               *)
(***************************************************************************)
MaxOcrFiles == 2
MaxFilePages == 2

ProcessRequests ==
    {[filename |-> "a.pdf", documentId |-> ""],
     [filename |-> "c.pdf", documentId |-> ""],
     [filename |-> "",      documentId |-> "doc1"],
     [filename |-> "",      documentId |-> "doc9"]}

\* The text of response k of the file named n, as its hashes
ResponseText(n, k) ==
    CHOOSE h \in PageHashes : h.textHash = (IF (n + k) % 2 = 0 THEN "a" ELSE "b")

\* The failure of one request: no step fails, or one does; createMany
\* fails with fewer than all n rows written
ProcessFaults(nFiles, n) ==
    {{}} \cup {{Fault(op, 0)} : op \in {"document.find", "storage.deleteFiles",
                  "asyncBatchAnnotateFiles", "operation.promise", "storage.getFiles",
                  "tx.dateEvent.deleteMany", "tx.page.deleteMany", "tx.commit",
                  "document.update"}}
         \cup {{Fault(op, i)} : op \in {"file.download", "JSON.parse"}, i \in 1..nFiles}
         \cup {{Fault("tx.page.createMany", j)} : j \in 0..(n - 1)}

ProcessInput ==
    /\ pc = "call"
    /\ processRequest = NoProcessRequest
    /\ \E r \in ProcessRequests : processRequest' = r
    /\ UNCHANGED <<pc, faults, ocrFiles, processResponse>>
    /\ UNCHANGED <<clusterVars, classifyVars, selectVars, datesVars, duplicateVars,
                   llmVars>>
    /\ UNCHANGED appVars

\* A page stored by an earlier run
StoredPage ==
    /\ pc = "call"
    /\ \E d \in Documents :
          /\ \A r \in dbPages : r.documentId # d
          /\ dbPages' = dbPages \cup {PageRow(d, 1, ResponseText(1, 1))}
    /\ UNCHANGED <<pc, duplicates>>
    /\ UNCHANGED <<clusterVars, classifyVars, selectVars, datesVars, llmVars,
                   processVars>>
    /\ UNCHANGED appVars

\* One more output file of the OCR job, listed in any order of the names
OcrFile ==
    /\ pc = "call"
    /\ Len(ocrFiles) < MaxOcrFiles
    /\ \E n \in 1..MaxOcrFiles :
          /\ \A k \in 1..Len(ocrFiles) : ocrFiles[k].name # n
          /\ ocrFiles' = Append(ocrFiles, [name |-> n, responses |-> <<>>])
    /\ UNCHANGED <<pc, faults, processRequest, processResponse>>
    /\ UNCHANGED <<clusterVars, classifyVars, selectVars, datesVars, duplicateVars,
                   llmVars>>
    /\ UNCHANGED appVars

\* One more response (a page) in the last output file
OcrResponse ==
    /\ pc = "call"
    /\ ocrFiles # <<>>
    /\ LET i == Len(ocrFiles)
           k == Len(ocrFiles[i].responses) + 1
       IN  /\ k <= MaxFilePages
           /\ ocrFiles' = [ocrFiles EXCEPT ![i].responses =
                              Append(@, ResponseText(ocrFiles[i].name, k))]
    /\ UNCHANGED <<pc, faults, processRequest, processResponse>>
    /\ UNCHANGED <<clusterVars, classifyVars, selectVars, datesVars, duplicateVars,
                   llmVars>>
    /\ UNCHANGED appVars

PostProcess ==
    /\ pc = "call"
    /\ \E flt \in ProcessFaults(Len(ocrFiles),
                                Len(PageDataFrom(SortByName(ocrFiles), 1, 0))) :
          LET r == ProcessPOST(processRequest, ocrFiles, dbPages, dateEvents, flt)
          IN  /\ faults' = flt
              /\ processResponse' = r.response
              /\ dbPages' = r.dbPages
              /\ dateEvents' = r.dateEvents
    /\ pc' = "return"
    /\ UNCHANGED <<processRequest, ocrFiles, duplicates>>
    /\ UNCHANGED <<classifyRequest, llmOutputs, analyzed, classifyResponse>>
    /\ UNCHANGED <<clusterVars, classifyVars, selectVars, datesVars>>
    /\ UNCHANGED appVars

NextProcess == ProcessInput \/ StoredPage \/ OcrFile \/ OcrResponse \/ PostProcess

SpecProcess == Init /\ [][NextProcess]_vars

\* The number of pages in the OCR output of the run
RECURSIVE C20_PageCount(_)
C20_PageCount(files) ==
    IF files = <<>> THEN 0 ELSE Len(Head(files).responses) + C20_PageCount(Tail(files))

\* The stored pages of the document of the request
C20_StoredPages(table) ==
    {r \in table : r.documentId = FindDocument(processRequest)}

\* C20: when POST /api/process runs on a document that has no stored
\* pages, whichever step fails, the document ends with no stored pages or
\* with one row for each page number 1..N of the run's N pages, and never
\* with a part of them.
C20_AllPagesOrNone ==
    [][(/\ pc = "call" /\ pc' = "return"
        /\ FindDocument(processRequest) # ""
        /\ C20_StoredPages(dbPages) = {})
       => \/ C20_StoredPages(dbPages') = {}
          \/ /\ {r.pageNumber : r \in C20_StoredPages(dbPages')}
                   = 1..C20_PageCount(ocrFiles)
             /\ \A r, q \in C20_StoredPages(dbPages') :
                   r.pageNumber = q.pageNumber => r = q]_vars

\* The write of the second of three or more pages failed and the document
\* has no pages
C20_Witness ==
    /\ pc = "return"
    /\ processResponse.status = 500
    /\ \E f \in faults : f.op = "tx.page.createMany" /\ f.at >= 1
    /\ C20_PageCount(ocrFiles) >= 3
    /\ C20_StoredPages(dbPages) = {}

\* The update of the document failed after the transaction and the
\* document has all the pages of two files
C20_WitnessAllStored ==
    /\ pc = "return"
    /\ processResponse.status = 500
    /\ Fault("document.update", 0) \in faults
    /\ C20_PageCount(ocrFiles) >= 3
    /\ Cardinality(C20_StoredPages(dbPages)) = C20_PageCount(ocrFiles)

(***************************************************************************)
(* CSV export: GET /api/export (src/app/api/export/route.ts).  A string is *)
(* a sequence of characters, each a string of length one.                  *)
(***************************************************************************)

\* The characters of the strings below, in the order of their code points
Alphabet ==
    <<"\n", "\r", "\"", ",", "-", "0", "1", "2", "3", "4", "5", "6", "7", "8", "9",
      ":", "T", "a", "b">>

CharCode(c) == CHOOSE i \in 1..Len(Alphabet) : Alphabet[i] = c

IsDigitChar(c) == CharCode(c) >= CharCode("0") /\ CharCode(c) <= CharCode("9")

\* String.prototype.includes for one character
Includes(field, c) == \E i \in 1..Len(field) : field[i] = c

\* route.ts:85, field.replace(/"/g, '""')
RECURSIVE DoubleQuotes(_)
DoubleQuotes(field) ==
    IF field = <<>> THEN <<>>
    ELSE (IF Head(field) = "\"" THEN <<"\"", "\"">> ELSE <<Head(field)>>)
            \o DoubleQuotes(Tail(field))

\* route.ts:82-88
escapeCsvField(field) ==
    IF Includes(field, ",") \/ Includes(field, "\"") \/ Includes(field, "\n")
    THEN <<"\"">> \o DoubleQuotes(field) \o <<"\"">>
    ELSE field

\* Array.prototype.join
RECURSIVE Join(_, _)
Join(parts, sep) ==
    IF parts = <<>> THEN <<>>
    ELSE IF Len(parts) = 1 THEN parts[1]
    ELSE parts[1] \o sep \o Join(Tail(parts), sep)

\* Number.prototype.toString for a natural number
RECURSIVE NumberToString(_)
NumberToString(n) ==
    IF n < 10 THEN <<Alphabet[CharCode("0") + n]>>
    ELSE NumberToString(n \div 10) \o <<Alphabet[CharCode("0") + (n % 10)]>>

\* date-fns parseISO accepts yyyy-MM-dd, alone or followed by T and a time
IsIsoDateText(d) ==
    /\ Len(d) >= 10
    /\ \A i \in {1, 2, 3, 4, 6, 7, 9, 10} : IsDigitChar(d[i])
    /\ d[5] = "-" /\ d[8] = "-"
    /\ Len(d) > 10 => (d[11] = "T" /\ Len(d) = 16
                       /\ \A i \in {12, 13, 15, 16} : IsDigitChar(d[i])
                       /\ d[14] = ":")

\* route.ts:41-46: the date formatted as yyyy-MM-dd, or the stored string
\* when it does not parse
FormattedDate(d) == IF IsIsoDateText(d) THEN SubSeq(d, 1, 10) ELSE d

\* Strings in the order of their characters
RECURSIVE StringLessOrEqual(_, _)
StringLessOrEqual(x, y) ==
    IF x = <<>> THEN TRUE
    ELSE IF y = <<>> THEN FALSE
    ELSE IF Head(x) # Head(y) THEN CharCode(Head(x)) < CharCode(Head(y))
    ELSE StringLessOrEqual(Tail(x), Tail(y))

\* route.ts:28-36, orderBy date asc, createdAt asc: the rows are held in the
\* order of their creation
RECURSIVE InsertEventByDate(_, _)
InsertEventByDate(sorted, e) ==
    IF sorted = <<>> THEN <<e>>
    ELSE IF ~StringLessOrEqual(Head(sorted).date, e.date) THEN <<e>> \o sorted
    ELSE <<Head(sorted)>> \o InsertEventByDate(Tail(sorted), e)

RECURSIVE FindManyEvents(_, _)
FindManyEvents(events, documentId) ==
    IF events = <<>> THEN <<>>
    ELSE LET rest == FindManyEvents(SubSeq(events, 1, Len(events) - 1), documentId)
             last == events[Len(events)]
         IN  IF last.documentId = documentId THEN InsertEventByDate(rest, last)
             ELSE rest

\* route.ts:39
CsvHeaders ==
    <<<<"D", "a", "t", "e">>,
      <<"S", "u", "m", "m", "a", "r", "y">>,
      <<"T", "y", "p", "e">>,
      <<"P", "a", "g", "e">>,
      <<"P", "r", "i", "m", "a", "r", "y">>,
      <<"S", "o", "u", "r", "c", "e">>,
      <<"N", "o", "t", "e", "s">>>>

\* route.ts:40-57, the fields of one event; pageNumber is 0 for an event
\* without a page
CsvRowOf(event) ==
    <<FormattedDate(event.date),
      escapeCsvField(event.summary),
      event.type,
      IF event.pageNumber = 0 THEN <<>> ELSE NumberToString(event.pageNumber),
      IF event.isPrimary THEN <<"Y", "e", "s">> ELSE <<"N", "o">>,
      event.source,
      escapeCsvField(event.userNotes)>>

\* route.ts:6-80
ExportGET(documentId, events) ==
    IF documentId = "" THEN [status |-> 400, csv |-> <<>>]
    ELSE IF documentId \notin Documents THEN [status |-> 404, csv |-> <<>>]
    ELSE LET found == FindManyEvents(events, documentId)
             rows  == [k \in 1..Len(found) |-> CsvRowOf(found[k])]
         IN  [status |-> 200,
              csv    |-> Join([k \in 1..Len(rows) + 1 |->
                                 Join(IF k = 1 THEN CsvHeaders ELSE rows[k - 1], <<",">>)],
                              <<"\n">>)]

(***************************************************************************)
(* Specification of GET /api/export: events are stored, as POST            *)
(* /api/events, PATCH /api/events/[id] and POST /api/classify store them,  *)
(* with any strings in their text fields; then the export runs.            *)
(***************************************************************************)
MaxExportEvents == 2

\* Strings with the characters that matter to a CSV reader
SeparatorTexts ==
    {<<"a", ",", "b">>, <<"a", "\"", "b">>, <<"a", "\n", "b">>, <<"a", "\r", "b">>,
     <<"\"", ",", "\n">>}

IsoDay  == <<"2", "0", "2", "4", "-", "0", "1", "-", "0", "5">>
IsoTime == <<"2", "0", "2", "3", "-", "1", "2", "-", "3", "1", "T", "0", "9", ":", "3", "0">>

\* An event of document d with the string t in the field named by field,
\* and plain strings elsewhere
ExportEvent(id, d, field, t, linked) ==
    [id         |-> id,
     documentId |-> d,
     pageNumber |-> IF linked THEN 12 ELSE 0,
     date       |-> IF field = "date" THEN t ELSE IF linked THEN IsoDay ELSE IsoTime,
     summary    |-> IF field = "summary" THEN t ELSE <<"a", "b">>,
     type       |-> IF field = "type" THEN t ELSE <<"a">>,
     isPrimary  |-> linked,
     source     |-> IF linked THEN <<"l", "l", "m">> ELSE <<"u", "s", "e", "r">>,
     userNotes  |-> IF field = "userNotes" THEN t ELSE <<>>]

StoreEvent ==
    /\ pc = "call"
    /\ Len(dateEvents) < MaxExportEvents
    /\ \E field \in {"date", "summary", "type", "userNotes"},
          t \in SeparatorTexts \cup {<<"b">>}, linked \in BOOLEAN :
          dateEvents' = Append(dateEvents,
                               ExportEvent(Len(dateEvents) + 1,
                                           IF t = <<"b">> /\ field = "type"
                                           THEN "doc2" ELSE "doc1",
                                           field, t, linked))
    /\ UNCHANGED <<pc, classifyRequest, llmOutputs, analyzed, classifyResponse>>
    /\ UNCHANGED <<clusterVars, classifyVars, selectVars, datesVars, duplicateVars,
                   processVars, appVars>>

ExportEvents ==
    /\ pc = "call"
    /\ \E d \in RequestDocumentIds : exported' = ExportGET(d, dateEvents)
    /\ pc' = "return"
    /\ UNCHANGED <<clusterVars, classifyVars, selectVars, datesVars, duplicateVars,
                   llmVars, processVars, otherThanExport>>

NextExport == StoreEvent \/ ExportEvents

SpecExport == Init /\ [][NextExport]_vars

\* A reader of CSV: a quote opens or closes a quoted field, so character i
\* is inside quotes when an odd number of quotes precede it
C21_Quoted(csv, i) ==
    Cardinality({j \in 1..(i - 1) : csv[j] = "\""}) % 2 = 1

\* A line break outside quotes ends a record; the text ends the last record
C21_RecordEnds(csv) ==
    {i \in 1..Len(csv) : csv[i] \in {"\n", "\r"} /\ ~C21_Quoted(csv, i)}
        \cup {Len(csv) + 1}

\* A comma outside quotes ends a field: the number of fields of the record
\* that ends at e
C21_Fields(csv, e) ==
    LET earlier == {i \in C21_RecordEnds(csv) : i < e}
        start   == IF earlier = {} THEN 0
                   ELSE CHOOSE i \in earlier : \A j \in earlier : j <= i
    IN  1 + Cardinality({i \in (start + 1)..(e - 1) :
                            csv[i] = "," /\ ~C21_Quoted(csv, i)})

\* csv reads as n records of seven fields each
C21_Read(csv, n) ==
    /\ Cardinality(C21_RecordEnds(csv)) = n
    /\ \A e \in C21_RecordEnds(csv) : C21_Fields(csv, e) = 7
    /\ ~C21_Quoted(csv, Len(csv) + 1)

C21_Exported == {k \in 1..Len(dateEvents) : dateEvents[k].documentId = "doc1"}

\* C21: the CSV of GET /api/export has, after the header, exactly one
\* record of exactly seven fields for each stored event of the document,
\* whatever strings the events hold in date, summary, type, source and
\* userNotes.
C21_OneRecordOfSevenFieldsPerEvent ==
    (pc = "return" /\ exported.status = 200) =>
       C21_Read(exported.csv, Cardinality(C21_Exported) + 1)

\* Separators and quotes in summary and userNotes only, and no carriage
\* return
C21_OnlyEscapedFields ==
    \A k \in C21_Exported :
       /\ dateEvents[k].date \in {IsoDay, IsoTime}
       /\ dateEvents[k].type \in {<<"a">>, <<"b">>}
       /\ ~Includes(dateEvents[k].summary, "\r")
       /\ ~Includes(dateEvents[k].userNotes, "\r")

\* The part of C21 that holds: the fields passed through escapeCsvField
C21_EscapedFieldsStayInOneField ==
    (pc = "return" /\ exported.status = 200 /\ C21_OnlyEscapedFields) =>
       C21_Read(exported.csv, Cardinality(C21_Exported) + 1)

(***************************************************************************)
(* Specification of getDatesWithContext on a text of several dates: the    *)
(* dates are written one after the other, with a space, a comma or a date  *)
(* separator between them.                                                 *)
(***************************************************************************)
MaxChunks == 2

\* Dates of each form
SeveralChunks ==
    {Chunk(<<Num(2024, 4), Sep("-"), Num(1, 2), Sep("-"), Num(5, 2)>>, "iso",
           <<2024, 1, 5>>, 0, 0),
     Chunk(<<Num(2024, 4), Sep("."), Num(1, 2), Sep("."), Num(5, 2)>>, "iso",
           <<2024, 1, 5>>, 0, 0),
     Chunk(<<Num(12, 2), Sep("/"), Num(29, 2), Sep("/"), Num(2023, 4)>>, "numeric",
           <<2023, 12, 29>>, 12, 29),
     Chunk(<<Num(3, 1), Sep("-"), Num(4, 1), Sep("-"), Num(24, 2)>>, "numeric",
           <<2024, 3, 4>>, 3, 4),
     Chunk(<<Num(20240105, 8)>>, "compact", <<2024, 1, 5>>, 0, 0),
     Chunk(<<Alpha("feb", 3, 1), Sp, Num(4, 1), Comma, Sp, Num(2024, 4)>>,
           "monthDayYear", <<2024, 2, 4>>, 0, 0),
     Chunk(<<Num(4, 1), Sp, Alpha("april", 5, 1), Sp, Num(2023, 4)>>,
           "dayMonthYear", <<2023, 4, 4>>, 0, 0),
     Chunk(<<Alpha("december", 8, 1), Sp, Num(2023, 4)>>, "monthYear",
           <<2023, 12, 1>>, 0, 0),
     Chunk(<<Num(4, 2), Sep("/"), Num(2024, 4)>>, "numericMonthYear",
           <<2024, 4, 1>>, 0, 0)}

\* What stands between two dates
Glues == {<<Sp>>, <<Comma, Sp>>, <<Sep("/")>>, <<Sep("-")>>, <<Sp, Alpha("to", 2, 0), Sp>>}

DatesSeveral ==
    /\ pc = "call"
    /\ Len(written) < MaxChunks
    /\ \E chunk \in SeveralChunks, glue \in Glues :
          /\ text' = (IF text = <<>> THEN <<>> ELSE text \o glue) \o chunk.tokens
          /\ written' = Append(written, chunk)
    /\ UNCHANGED <<pc, tz, results, parsedDates>>
    /\ UNCHANGED <<clusterVars, classifyVars, selectVars, duplicateVars, llmVars,
                   processVars, appVars>>

NextDatesSeveral == DatesSeveral \/ GetDatesWithContext

SpecDatesSeveral == Init /\ [][NextDatesSeveral]_vars

\* C22: getDatesWithContext returns its entries in non-decreasing order of
\* offset, and the spans [offset, offset + length of raw) of two entries
\* never overlap, also when matches between them are dropped.
C22_InOffsetOrderWithoutOverlap ==
    pc = "return" =>
       \A i, j \in 1..Len(results) :
          i < j => results[i].offset + TextLength(results[i].raw) <= results[j].offset

\* Two entries are returned, from two dates with a date separator or a
\* space between them
C22_Witness ==
    /\ pc = "return"
    /\ Len(results) >= 2
    /\ results[1].offset < results[2].offset

(***************************************************************************)
(* Text normalization: normalizeText (src/lib/chronology/findDates.ts).    *)
(* A character is a string; a character outside ASCII is named by its     *)
(* code point.                                                             *)
(***************************************************************************)

\* String.prototype.toLowerCase for one character: U+0130, capital I with
\* dot above, becomes i and the combining dot U+0307; U+212A, the Kelvin
\* sign, becomes k; U+00C9, capital E acute, becomes U+00E9
LowerCaseOf(c) ==
    CASE c = "A"      -> <<"a">>
      [] c = "B"      -> <<"b">>
      [] c = "U+0130" -> <<"i", "U+0307">>
      [] c = "U+212A" -> <<"k">>
      [] c = "U+00C9" -> <<"U+00E9">>
      [] OTHER        -> <<c>>

\* findDates.ts:564
RECURSIVE StringToLowerCase(_)
StringToLowerCase(t) ==
    IF t = <<>> THEN <<>> ELSE LowerCaseOf(Head(t)) \o StringToLowerCase(Tail(t))

\* \w: [A-Za-z0-9_]
IsWordChar(c) == c \in {"A", "B", "a", "b", "i", "k", "1", "_"}

\* \s: the space, tab and line break characters, the no-break space included
IsSpaceChar(c) == c \in {" ", "\t", "\n", "U+00A0"}

\* findDates.ts:565, replace(/[^\w\s]/g, "")
RemovePunctuation(t) == SelectSeq(t, LAMBDA c : IsWordChar(c) \/ IsSpaceChar(c))

\* findDates.ts:566, replace(/\s+/g, " ")
RECURSIVE CollapseWhitespace(_)
CollapseWhitespace(t) ==
    IF t = <<>> THEN <<>>
    ELSE IF ~IsSpaceChar(Head(t)) THEN <<Head(t)>> \o CollapseWhitespace(Tail(t))
    ELSE IF Len(t) >= 2 /\ IsSpaceChar(t[2]) THEN CollapseWhitespace(Tail(t))
    ELSE <<" ">> \o CollapseWhitespace(Tail(t))

\* findDates.ts:567, String.prototype.trim
RECURSIVE TrimStart(_)
TrimStart(t) == IF t # <<>> /\ IsSpaceChar(Head(t)) THEN TrimStart(Tail(t)) ELSE t

RECURSIVE TrimEnd(_)
TrimEnd(t) ==
    IF t # <<>> /\ IsSpaceChar(t[Len(t)]) THEN TrimEnd(SubSeq(t, 1, Len(t) - 1)) ELSE t

\* The same steps with the ends trimmed before the punctuation is removed
normalizeTextTrimFirst(t) ==
    CollapseWhitespace(RemovePunctuation(TrimEnd(TrimStart(StringToLowerCase(t)))))

\* findDates.ts:562-568
normalizeText(t) ==
    TrimEnd(TrimStart(CollapseWhitespace(RemovePunctuation(StringToLowerCase(t)))))

(***************************************************************************)
(* Specification of normalizeText: a text is written character by          *)
(* character, normalized, and the result normalized again.                 *)
(***************************************************************************)
MaxTextChars == 4

TextChars == {"A", "b", "1", "_", ",", "U+0130", "U+212A", "U+00C9", " ", "\n", "U+00A0"}

TextInput ==
    /\ pc = "call"
    /\ Len(rawText) < MaxTextChars
    /\ \E c \in TextChars : rawText' = Append(rawText, c)
    /\ UNCHANGED <<pc, normalizedOnce, normalizedTwice, fingerprint>>
    /\ UNCHANGED <<clusterVars, classifyVars, selectVars, datesVars, duplicateVars,
                   llmVars, processVars, otherThanText>>

NormalizeText ==
    /\ pc = "call"
    /\ normalizedOnce' = normalizeText(rawText)
    /\ pc' = "return"
    /\ UNCHANGED <<rawText, normalizedTwice, fingerprint>>
    /\ UNCHANGED <<clusterVars, classifyVars, selectVars, datesVars, duplicateVars,
                   llmVars, processVars, otherThanText>>

NormalizeTextAgain ==
    /\ pc = "return"
    /\ normalizedTwice' = normalizeText(normalizedOnce)
    /\ pc' = "again"
    /\ UNCHANGED <<rawText, normalizedOnce, fingerprint>>
    /\ UNCHANGED <<clusterVars, classifyVars, selectVars, datesVars, duplicateVars,
                   llmVars, processVars, otherThanText>>

NextNormalize == TextInput \/ NormalizeText \/ NormalizeTextAgain

SpecNormalize == Init /\ [][NextNormalize]_vars

\* C23: normalizeText is idempotent: normalizing a normalized text returns
\* it unchanged.
C23_NormalizeIsIdempotent ==
    pc = "again" => normalizedTwice = normalizedOnce

\* What C23 says normalizeText returns: lower case, word characters and
\* single spaces only, no space at either end
C23_IsNormalForm ==
    pc \in {"return", "again"} =>
       /\ \A i \in 1..Len(normalizedOnce) :
             /\ IsWordChar(normalizedOnce[i]) \/ normalizedOnce[i] = " "
             /\ LowerCaseOf(normalizedOnce[i]) = <<normalizedOnce[i]>>
             /\ (normalizedOnce[i] = " ") =>
                   (i > 1 /\ i < Len(normalizedOnce) /\ normalizedOnce[i + 1] # " ")

\* A text with two words, punctuation before a whitespace character and a
\* capital letter was normalized twice
C23_Witness ==
    /\ pc = "again"
    /\ \E i \in 1..(Len(rawText) - 1) :
          /\ ~IsWordChar(rawText[i]) /\ ~IsSpaceChar(rawText[i])
          /\ IsSpaceChar(rawText[i + 1])
    /\ \E i \in 1..Len(rawText) : LowerCaseOf(rawText[i]) # <<rawText[i]>>
    /\ \E i \in 1..Len(normalizedOnce) : normalizedOnce[i] = " "

(***************************************************************************)
(* Specification of two POST /api/process requests served at the same      *)
(* time, request A for doc1 and request B for doc2.  Each await of the     *)
(* handler is a step; the steps of the two requests interleave.  The OCR   *)
(* output of both goes under the one outputPrefix (route.ts:149).          *)
(***************************************************************************)
MaxOcrPages == 2

DocumentOf(r) == IF r = "A" THEN "doc1" ELSE "doc2"

\* The text of every page of a document, as its hashes: the pages of doc1
\* and of doc2 differ
OwnText(d) == CHOOSE h \in PageHashes : h.textHash = (IF d = "doc1" THEN "a" ELSE "b")

\* The output file of the OCR job for a document of n pages: a job writes
\* output-1-to-n.json for up to batchSize pages (route.ts:254-257)
OcrOutput(d, n) == [name |-> n, responses |-> [k \in 1..n |-> OwnText(d)]]

\* getFiles: the files of a set as a list, in the order of their names
RECURSIVE ListFiles(_)
ListFiles(files) ==
    IF files = {} THEN <<>>
    ELSE LET first == CHOOSE f \in files : \A g \in files : f.name <= g.name
         IN  <<first>> \o ListFiles(files \ {first})

\* route.ts:179-236: the document is looked up with its pages; a document
\* with pages is answered from them
ProcFind(r) ==
    /\ procPc[r] = "idle"
    /\ procPc' = [procPc EXCEPT ![r] =
                     IF FindManyPages(dbPages, DocumentOf(r)) # <<>>
                     THEN "done" ELSE "found"]
    /\ UNCHANGED <<pc, bucket, procListed, procRead>>
    /\ UNCHANGED <<clusterVars, classifyVars, selectVars, datesVars, duplicateVars,
                   llmVars, processVars, otherThanBucket>>

\* route.ts:244, deleteFiles({prefix: outputPrefix})
ProcDeleteFiles(r) ==
    /\ procPc[r] = "found"
    /\ bucket' = {}
    /\ procPc' = [procPc EXCEPT ![r] = "cleaned"]
    /\ UNCHANGED <<pc, procListed, procRead>>
    /\ UNCHANGED <<clusterVars, classifyVars, selectVars, datesVars, duplicateVars,
                   llmVars, processVars, otherThanBucket>>

\* route.ts:246-263: the OCR job of the document writes its output file,
\* over a file of the same name
ProcOcr(r) ==
    /\ procPc[r] = "cleaned"
    /\ \E n \in 1..MaxOcrPages :
          bucket' = {f \in bucket : f.name # n} \cup {OcrOutput(DocumentOf(r), n)}
    /\ procPc' = [procPc EXCEPT ![r] = "ocr"]
    /\ UNCHANGED <<pc, procListed, procRead>>
    /\ UNCHANGED <<clusterVars, classifyVars, selectVars, datesVars, duplicateVars,
                   llmVars, processVars, otherThanBucket>>

\* route.ts:267-279, getFiles({prefix: outputPrefix})
ProcGetFiles(r) ==
    /\ procPc[r] = "ocr"
    /\ procListed' = [procListed EXCEPT ![r] = {f.name : f \in bucket}]
    /\ procPc' = [procPc EXCEPT ![r] = IF bucket = {} THEN "failed" ELSE "listed"]
    /\ UNCHANGED <<pc, bucket, procRead>>
    /\ UNCHANGED <<clusterVars, classifyVars, selectVars, datesVars, duplicateVars,
                   llmVars, processVars, otherThanBucket>>

\* route.ts:293-298: the listed files are downloaded in the order of their
\* names; the download of a file that is gone throws
ProcDownload(r) ==
    /\ procPc[r] = "listed"
    /\ IF \A n \in procListed[r] : \E f \in bucket : f.name = n
       THEN /\ procRead' = [procRead EXCEPT ![r] =
                               SortByName(ListFiles({f \in bucket :
                                                        f.name \in procListed[r]}))]
            /\ procPc' = [procPc EXCEPT ![r] = "read"]
       ELSE /\ procPc' = [procPc EXCEPT ![r] = "failed"]
            /\ UNCHANGED procRead
    /\ UNCHANGED <<pc, bucket, procListed>>
    /\ UNCHANGED <<clusterVars, classifyVars, selectVars, datesVars, duplicateVars,
                   llmVars, processVars, otherThanBucket>>

\* route.ts:300-378: the pages are numbered, deduplicated and saved in the
\* transaction
ProcSave(r) ==
    /\ procPc[r] = "read"
    /\ LET ps == UniquePages(PageDataFrom(procRead[r], 1, 0))
           saved == Transaction([dbPages |-> dbPages, dateEvents |-> dateEvents],
                                InsideTransaction(dbPages, dateEvents,
                                                  DocumentOf(r), ps, {}),
                                FALSE)
       IN  /\ dbPages' = saved.dbPages
           /\ dateEvents' = saved.dateEvents
    /\ procPc' = [procPc EXCEPT ![r] = "done"]
    /\ UNCHANGED <<pc, duplicates, bucket, procListed, procRead>>
    /\ UNCHANGED <<classifyRequest, llmOutputs, analyzed, classifyResponse>>
    /\ UNCHANGED <<clusterVars, classifyVars, selectVars, datesVars,
                   processVars, otherThanBucket>>

NextConcurrent ==
    \E r \in Requests :
       \/ ProcFind(r) \/ ProcDeleteFiles(r) \/ ProcOcr(r)
       \/ ProcGetFiles(r) \/ ProcDownload(r) \/ ProcSave(r)

SpecConcurrent == Init /\ [][NextConcurrent]_vars

\* C24: when POST /api/process runs at the same time for two unprocessed
\* documents, the pages stored for each document come from that
\* document's own OCR output only, under every interleaving.
C24_PagesFromOwnOutput ==
    \A row \in dbPages : row.textHash = OwnText(row.documentId).textHash

(***************************************************************************)
(* The upload page: processDocument (src/app/upload/page.tsx:110-191)      *)
(***************************************************************************)

\* store.ts:84-91
setProcessingPhase(status, phase, progress) ==
    [status EXCEPT !.phase = phase, !.progress = progress]

\* store.ts:80-83, called with {message}
SetStatusMessage(status, message) == [status EXCEPT !.message = message]

\* store.ts:80-83, called with {error}
SetStatusError(status, error) == [status EXCEPT !.error = error]

\* page.tsx:182-190, the catch block
CatchProcessing(status, message) ==
    SetStatusError(setProcessingPhase(status, "error", 0), message)

\* page.tsx:176-177
ProcessingDone(status) ==
    SetStatusMessage(setProcessingPhase(status, "done", 100), "Processing complete!")

\* getDatesWithContext(p.text).length > 0 for the two texts of the OCR
\* outputs below: the text with hash a carries a date, the other none
HasDates(textHash) == textHash = "a"

\* process/route.ts:223-225 and 336: the page numbers of the pages with dates
PagesWithDates(processData) ==
    SelectSeq(processData.pages, LAMBDA p : HasDates(p.textHash))

\* page.tsx:154-160: the pages sent to /api/classify carry no pageId
PagesToClassify(processData) ==
    LET with == PagesWithDates(processData)
    IN  [k \in 1..Len(with) |-> [pageNumber |-> with[k].pageNumber,
                                   pageId     |-> NoPageId]]

(***************************************************************************)
(* Specification of the Build Timeline flow: the user starts               *)
(* processDocument for the uploaded document a.pdf, each of its two        *)
(* requests is answered by its handler or fails to reach the server, and   *)
(* the user may start the flow again when a run has ended.                 *)
(***************************************************************************)
MaxRuns == 2

\* The output of the OCR job for a.pdf: one file or two, pages with a date
\* and without
UploadOcrOutputs ==
    LET a == CHOOSE h \in PageHashes : h.textHash = "a"
        b == CHOOSE h \in PageHashes : h.textHash = "b"
    IN  {<<[name |-> 1, responses |-> <<b>>]>>,
         <<[name |-> 1, responses |-> <<a, b>>]>>,
         <<[name |-> 2, responses |-> <<a>>], [name |-> 1, responses |-> <<a>>]>>}

\* What the model does for a page of this flow
UploadLlmOutcomes ==
    {o \in LlmOutcomes : o.throws \/ o.text \in {<<JsonText(1)>>, <<JsonText(3), Sp>>}}

RECURSIVE SeqsOf(_, _)
SeqsOf(S, n) ==
    IF n = 0 THEN {<<>>}
    ELSE {Append(q, x) : q \in SeqsOf(S, n - 1), x \in S}

\* page.tsx:110-123: the run begins
BuildTimeline ==
    /\ uploadPc \in {"idle", "ended"}
    /\ Len(eventsAtStart) < MaxRuns
    /\ processingStatus' =
          SetStatusMessage(setProcessingPhase(initialProcessingStatus, "ocr", 10),
                           "Running OCR on PDF pages...")
    /\ processRequest' = [filename |-> "a.pdf", documentId |-> ""]
    /\ processResponse' = NoResponse
    /\ classifyRequest' = NoClassifyRequest
    /\ classifyResponse' = NoResponse
    /\ uploadSteps' = <<>>
    /\ eventsAtStart' = Append(eventsAtStart, dateEvents)
    /\ uploadPc' = "process"
    /\ UNCHANGED <<pc, faults, ocrFiles, llmOutputs, analyzed, dateEvents>>
    /\ UNCHANGED <<clusterVars, classifyVars, selectVars, datesVars, duplicateVars>>
    /\ UNCHANGED otherThanUpload

\* page.tsx:118-174: /api/process answers, and the run goes on to its next
\* await or to its end
ProcessAnswers ==
    /\ uploadPc = "process"
    /\ \E files \in UploadOcrOutputs :
       \E flt \in ProcessFaults(Len(files),
                                 Len(PageDataFrom(SortByName(files), 1, 0))) :
          LET r == ProcessPOST(processRequest, files, dbPages, dateEvents, flt)
              processData == r.response
          IN  /\ faults' = flt
              /\ ocrFiles' = files
              /\ processResponse' = processData
              /\ dbPages' = r.dbPages
              /\ dateEvents' = r.dateEvents
              /\ IF processData.status # 200
                 THEN /\ processingStatus' =
                            CatchProcessing(processingStatus, "OCR processing failed")
                      /\ uploadSteps' = Append(uploadSteps, "status")
                      /\ uploadPc' = "ended"
                      /\ UNCHANGED classifyRequest
                 ELSE IF PagesWithDates(processData) = <<>>
                 THEN /\ processingStatus' =
                            ProcessingDone(
                                SetStatusMessage(
                                    setProcessingPhase(processingStatus, "extracting", 40),
                                    "pages"))
                      /\ uploadSteps' = Append(uploadSteps, "ok")
                      /\ uploadPc' = "ended"
                      /\ UNCHANGED classifyRequest
                 ELSE /\ processingStatus' =
                            SetStatusMessage(
                                setProcessingPhase(processingStatus, "classifying", 50),
                                "Analyzing pages with AI...")
                      /\ uploadSteps' = Append(uploadSteps, "ok")
                      /\ uploadPc' = "classify"
                      /\ classifyRequest' =
                            [documentId |-> processData.documentId,
                             pages      |-> PagesToClassify(processData)]
    /\ UNCHANGED <<pc, duplicates, llmOutputs, analyzed, classifyResponse,
                   processRequest, eventsAtStart>>
    /\ UNCHANGED <<clusterVars, classifyVars, selectVars, datesVars>>
    /\ UNCHANGED otherThanUpload

\* page.tsx:162-177: /api/classify answers; the run ends
ClassifyAnswers ==
    /\ uploadPc = "classify"
    /\ \E outs \in SeqsOf(UploadLlmOutcomes, Len(classifyRequest.pages)) :
       \E flt \in FaultSets(Len(classifyRequest.pages)) :
          LET r == ClassifyPOST(classifyRequest, outs, dbPages, analyzed,
                                dateEvents, flt)
          IN  /\ faults' = flt
              /\ llmOutputs' = outs
              /\ classifyResponse' = r.response
              /\ analyzed' = r.analyzed
              /\ dateEvents' = r.dateEvents
              /\ uploadSteps' = Append(uploadSteps,
                                       IF r.response.status = 200 THEN "ok"
                                       ELSE "status")
              /\ processingStatus' =
                    ProcessingDone(
                        IF r.response.status = 200
                        THEN SetStatusMessage(processingStatus,
                                              "Created events from AI analysis")
                        ELSE processingStatus)
    /\ uploadPc' = "ended"
    /\ UNCHANGED <<pc, dbPages, duplicates, classifyRequest, processRequest,
                   ocrFiles, processResponse, eventsAtStart>>
    /\ UNCHANGED <<clusterVars, classifyVars, selectVars, datesVars>>
    /\ UNCHANGED otherThanUpload

\* page.tsx:118, 162 and 182-190: fetch rejects, the request has not reached
\* the server
FetchThrows ==
    /\ uploadPc \in {"process", "classify"}
    /\ processingStatus' = CatchProcessing(processingStatus, "Failed to fetch")
    /\ uploadSteps' = Append(uploadSteps, "throws")
    /\ uploadPc' = "ended"
    /\ UNCHANGED <<pc, eventsAtStart>>
    /\ UNCHANGED <<clusterVars, classifyVars, selectVars, datesVars, duplicateVars,
                   llmVars, processVars>>
    /\ UNCHANGED otherThanUpload

NextUpload == BuildTimeline \/ ProcessAnswers \/ ClassifyAnswers \/ FetchThrows

SpecUpload == Init /\ [][NextUpload]_vars

\* C25: when a run of processDocument has ended, a failed step (an error
\* status of /api/process or /api/classify, or a fetch that threw) has left
\* phase error with an error message, and phase done with progress 100 is
\* shown only when every step succeeded.
C25_FailedStepEndsInError ==
    uploadPc = "ended" =>
        /\ (\E k \in 1..Len(uploadSteps) : uploadSteps[k] # "ok")
              => /\ processingStatus.phase = "error"
                 /\ processingStatus.error # ""
        /\ (processingStatus.phase = "done" /\ processingStatus.progress = 100)
              => \A k \in 1..Len(uploadSteps) : uploadSteps[k] = "ok"

\* The same for the steps that are handled: /api/process and both fetches
C25_ProcessFailureEndsInError ==
    uploadPc = "ended" =>
        /\ (\E k \in 1..Len(uploadSteps) :
                uploadSteps[k] = "throws" \/ (k = 1 /\ uploadSteps[k] = "status"))
              => /\ processingStatus.phase = "error"
                 /\ processingStatus.error # ""
        /\ (processingStatus.phase = "done" /\ processingStatus.progress = 100)
              => \A k \in 1..Len(uploadSteps) : uploadSteps[k] # "throws"

\* C26: a run of the flow on a document that is already processed (an
\* earlier run has stored its events, process answers from the stored
\* pages, classify is called and answers) leaves the stored DateEvents as
\* they were when the run began: no event is stored a second time.
C26_SecondRunStoresNoEvent ==
    (/\ uploadPc = "ended"
     /\ Len(eventsAtStart) >= 2
     /\ eventsAtStart[Len(eventsAtStart)] # <<>>
     /\ uploadSteps = <<"ok", "ok">>
     /\ processResponse.fromCache)
        => dateEvents = eventsAtStart[Len(eventsAtStart)]

\* The second run has stored the events of the first run once more
C26_EventsStoredTwice ==
    /\ uploadPc = "ended"
    /\ Len(eventsAtStart) = 2
    /\ eventsAtStart[2] # <<>>
    /\ uploadSteps = <<"ok", "ok">>
    /\ processResponse.fromCache
    /\ dateEvents = eventsAtStart[2] \o eventsAtStart[2]

(***************************************************************************)
(* GET /api/duplicates: which similar pages the near groups hold           *)
(***************************************************************************)

\* The page ids listed by the groups of one kind
C27_Listed(groups) ==
    LET ids == C11_ListedIds(groups, 1) IN {ids[k] : k \in 1..Len(ids)}

\* C27: in a GET /api/duplicates response, any two pages of the document
\* that are in no exact group, both have a simHash and are at least 0.9
\* similar to each other are both members of some near-duplicate group.
C27_SimilarPagesAreInNearGroups ==
    (pc = "return" /\ duplicates.status = 200) =>
        \A r, q \in {x \in dbPages : x.documentId = duplicates.documentId} :
            (/\ r.id # q.id
             /\ r.id \notin C27_Listed(duplicates.exactDuplicates)
             /\ q.id \notin C27_Listed(duplicates.exactDuplicates)
             /\ r.simHash # <<>> /\ q.simHash # <<>>
             /\ (SimHashBits - C12_Distance(r.simHash, q.simHash)) * 10
                    >= 9 * SimHashBits)
                => /\ r.id \in C27_Listed(duplicates.nearDuplicates)
                   /\ q.id \in C27_Listed(duplicates.nearDuplicates)

(***************************************************************************)
(* computeSimHash (src/lib/chronology/findDates.ts:589-622)                *)
(***************************************************************************)

\* findDates.ts:591, normalized.split(" ").filter((w) => w.length > 0): the
\* words of t from character k on, word being the characters read since
\* the last space
RECURSIVE SplitFrom(_, _, _)
SplitFrom(t, k, word) ==
    IF k > Len(t) THEN (IF word = <<>> THEN <<>> ELSE <<word>>)
    ELSE IF t[k] = " "
    THEN (IF word = <<>> THEN <<>> ELSE <<word>>) \o SplitFrom(t, k + 1, <<>>)
    ELSE SplitFrom(t, k + 1, Append(word, t[k]))

SplitWords(normalized) == SplitFrom(normalized, 1, <<>>)

\* findDates.ts:602, createHash("md5").update(word).digest(): the first
\* eight bytes of the MD5 digest of the words the texts below are made of
Md5Digest(word) ==
    CASE word = <<"a">>      -> <<12, 193, 117, 185, 192, 241, 182, 168>>
      [] word = <<"b">>      -> <<146, 235, 95, 254, 230, 174, 47, 236>>
      [] word = <<"a", "b">> -> <<24, 126, 244, 67, 97, 34, 209, 204>>
      [] word = <<"1">>      -> <<196, 202, 66, 56, 160, 185, 35, 130>>

\* findDates.ts:606-608, (hash[byteIndex] >> bitIndex) & 1
HashBit(hash, i) ==
    LET byteIndex == i \div 8
        bitIndex  == i % 8
    IN  (hash[byteIndex + 1] \div (2 ^ bitIndex)) % 2

\* findDates.ts:601-611: bitCounts after the words from k on
RECURSIVE BitCountsFrom(_, _, _)
BitCountsFrom(words, k, bitCounts) ==
    IF k > Len(words) THEN bitCounts
    ELSE LET hash == Md5Digest(words[k])
         IN  BitCountsFrom(words, k + 1,
                 [i \in 0..(SimHashBits - 1) |->
                     bitCounts[i] + (IF HashBit(hash, i) = 1 THEN 1 ELSE -1)])

\* The same with a tie counted as a one bit
BitIsSetOnTie(count) == count >= 0

\* findDates.ts:616, bitCounts[i] > 0
BitIsSet(count) == count > 0

\* findDates.ts:614-621: result.toString(16).padStart(16, "0"), as the
\* sixteen digits from the most significant one
HexDigitsOf(bitCounts) ==
    [d \in 1..16 |->
        LET low == 4 * (16 - d)
            bit(i) == IF BitIsSet(bitCounts[low + i]) THEN 2 ^ i ELSE 0
        IN  bit(0) + bit(1) + bit(2) + bit(3)]

\* findDates.ts:589-622
computeSimHash(t) ==
    LET normalized == normalizeText(t)
        words      == SplitWords(normalized)
    IN  IF Len(words) = 0 THEN [d \in 1..16 |-> 0]
        ELSE HexDigitsOf(BitCountsFrom(words, 1, [i \in 0..(SimHashBits - 1) |-> 0]))

(***************************************************************************)
(* Specification of computeSimHash: a text is written word by word, then   *)
(* its fingerprint is computed.                                            *)
(***************************************************************************)
MaxWords == 4

\* What is written between two spaces: a word in either case, or a comma
RawWords == {<<"a">>, <<"B">>, <<"a", "b">>, <<"1">>, <<",">>}

WordInput ==
    /\ pc = "call"
    /\ Cardinality({k \in 1..Len(rawText) : rawText[k] = " "}) < MaxWords - 1
    /\ \E w \in RawWords :
          rawText' = IF rawText = <<>> THEN w ELSE rawText \o <<" ">> \o w
    /\ UNCHANGED <<pc, normalizedOnce, normalizedTwice, fingerprint>>
    /\ UNCHANGED <<clusterVars, classifyVars, selectVars, datesVars, duplicateVars,
                   llmVars, processVars, otherThanText>>

ComputeSimHash ==
    /\ pc = "call"
    /\ fingerprint' = computeSimHash(rawText)
    /\ pc' = "return"
    /\ UNCHANGED <<rawText, normalizedOnce, normalizedTwice>>
    /\ UNCHANGED <<clusterVars, classifyVars, selectVars, datesVars, duplicateVars,
                   llmVars, processVars, otherThanText>>

NextSimHash == WordInput \/ ComputeSimHash

SpecSimHash == Init /\ [][NextSimHash]_vars

\* The words of the normalized text
C28_Words == SplitWords(normalizeText(rawText))

\* Bit i of a fingerprint of sixteen hexadecimal digits
C28_Bit(hash, i) == (hash[16 - (i \div 4)] \div (2 ^ (i % 4))) % 2

\* The words, counted with repetition, whose hash has bit i equal to v
C28_Votes(i, v) ==
    Cardinality({k \in 1..Len(C28_Words) : HashBit(Md5Digest(C28_Words[k]), i) = v})

\* The text with the words k and k + 1 in the other order
C28_Swapped(k) ==
    LET ws == C28_Words
        order == [j \in 1..Len(ws) |-> IF j = k THEN k + 1
                                        ELSE IF j = k + 1 THEN k ELSE j]
        RECURSIVE joined(_)
        joined(j) == IF j > Len(ws) THEN <<>>
                     ELSE (IF j = 1 THEN <<>> ELSE <<" ">>) \o ws[order[j]] \o joined(j + 1)
    IN  joined(1)

\* C28: bit i of the fingerprint is 1 exactly when strictly more words of
\* the normalized text, counted with repetition, have bit i set in their
\* hash than have it clear (a tie gives 0); a text without words has the
\* all-zero fingerprint; the order of the words does not matter.
C28_BitMajority ==
    pc = "return" =>
        /\ \A i \in 0..(SimHashBits - 1) :
              C28_Bit(fingerprint, i) = 1 <=> C28_Votes(i, 1) > C28_Votes(i, 0)
        /\ Len(C28_Words) = 0 => fingerprint = [d \in 1..16 |-> 0]
        /\ \A k \in 1..(Len(C28_Words) - 1) :
              computeSimHash(C28_Swapped(k)) = fingerprint

\* A text of four words of which three differ, with a bit on which the
\* words tie and a bit that most of them set
C28_Witness ==
    /\ pc = "return"
    /\ Len(C28_Words) = 4
    /\ Cardinality({C28_Words[k] : k \in 1..4}) = 3
    /\ \E i \in 0..(SimHashBits - 1) : C28_Votes(i, 1) = C28_Votes(i, 0)
    /\ \E i \in 0..(SimHashBits - 1) :
          C28_Votes(i, 1) = 3 /\ C28_Bit(fingerprint, i) = 1

\* A text without words
C28_WitnessNoWords ==
    /\ pc = "return"
    /\ rawText # <<>>
    /\ Len(C28_Words) = 0

(***************************************************************************)
(* Event editing: POST /api/events (src/app/api/events/route.ts) and PATCH *)
(* and DELETE /api/events/[id] (src/app/api/events/[id]/route.ts)          *)
(***************************************************************************)

\* A JSON body: given holds the keys the body has, so that body.k !==
\* undefined is k \in body.given; a null value is the string "null"
EventBody(given, documentId, date, summary, type, isPrimary, userNotes) ==
    [given |-> given, documentId |-> documentId, date |-> date, summary |-> summary,
     type |-> type, isPrimary |-> isPrimary, userNotes |-> userNotes,
     duplicateOfId |-> "null"]

\* migration.sql:33-52, the columns of DateEvent the event routes write
EventRow(id, documentId, date, summary, type, isPrimary, source, userEdited, userNotes) ==
    [id |-> id, documentId |-> documentId, date |-> date, summary |-> summary,
     type |-> type, isPrimary |-> isPrimary, source |-> source,
     userEdited |-> userEdited, userNotes |-> userNotes, duplicateOfId |-> "null"]

\* events/route.ts:99-187, POST: the response and the table it leaves; id
\* is the id prisma gives the new row
EventsPOST(body, table, id) ==
    IF \/ {"documentId", "date", "summary", "type"} \ body.given # {}
       \/ body.documentId = "" \/ body.date = "" \/ body.summary = "" \/ body.type = ""
    THEN [response |-> [status |-> 400], eventTable |-> table]
    ELSE IF body.documentId \notin Documents
    THEN [response |-> [status |-> 404], eventTable |-> table]
    ELSE [response   |-> [status |-> 200, id |-> id, userEdited |-> FALSE],
          eventTable |-> table \cup
              {EventRow(id, body.documentId, body.date, body.summary, body.type,
                        IF "isPrimary" \in body.given THEN body.isPrimary ELSE FALSE,
                        "user", FALSE,
                        IF "userNotes" \in body.given THEN body.userNotes ELSE "null")}]

\* The same test with every field of the body counted
MarksUserEditedAnyField(body) == body.given # {}

\* events/[id]/route.ts:92-100
MarksUserEdited(body) ==
    \/ "date" \in body.given
    \/ "summary" \in body.given
    \/ "type" \in body.given
    \/ "userNotes" \in body.given

\* events/[id]/route.ts:81-100, the row after the update
UpdatedRow(existing, body) ==
    [existing EXCEPT
        !.date          = IF "date" \in body.given THEN body.date ELSE @,
        !.summary       = IF "summary" \in body.given THEN body.summary ELSE @,
        !.type          = IF "type" \in body.given THEN body.type ELSE @,
        !.isPrimary     = IF "isPrimary" \in body.given THEN body.isPrimary ELSE @,
        !.userNotes     = IF "userNotes" \in body.given THEN body.userNotes ELSE @,
        !.duplicateOfId = IF "duplicateOfId" \in body.given THEN body.duplicateOfId ELSE @,
        !.userEdited    = IF MarksUserEdited(body) THEN TRUE ELSE @]

\* events/[id]/route.ts:64-139, PATCH; prisma.dateEvent.update throws for
\* a null in a NOT NULL column, and when the database fails
EventPATCH(id, body, table, throws) ==
    IF throws
    THEN [response |-> [status |-> 500], eventTable |-> table]
    ELSE IF \A r \in table : r.id # id
    THEN [response |-> [status |-> 404], eventTable |-> table]
    ELSE IF \E k \in {"date", "summary", "type"} \cap body.given : body[k] = "null"
    THEN [response |-> [status |-> 500], eventTable |-> table]
    ELSE LET existing == CHOOSE r \in table : r.id = id
             event    == UpdatedRow(existing, body)
         IN  [response   |-> [status |-> 200, id |-> id,
                              userEdited |-> event.userEdited],
              eventTable |-> (table \ {existing}) \cup {event}]

\* events/[id]/route.ts:142-169, DELETE
EventDELETE(id, table, throws) ==
    IF throws
    THEN [response |-> [status |-> 500], eventTable |-> table]
    ELSE IF \A r \in table : r.id # id
    THEN [response |-> [status |-> 404], eventTable |-> table]
    ELSE [response   |-> [status |-> 200, success |-> TRUE],
          eventTable |-> {r \in table : r.id # id}]

(***************************************************************************)
(* Specification of the event routes: events are created by the classify   *)
(* route and by POST /api/events, and patched and deleted by id, in any    *)
(* order.                                                                  *)
(***************************************************************************)
MaxEvents == 2

\* The bodies of POST /api/events: complete, without a summary, for an
\* unknown document
PostBodies ==
    {EventBody({"documentId", "date", "summary", "type"},
               "doc1", "2024-01-05", "office visit", "visit", FALSE, "null"),
     EventBody({"documentId", "date", "type"},
               "doc1", "2024-01-05", "", "visit", FALSE, "null"),
     EventBody({"documentId", "date", "summary", "type"},
               "doc9", "2024-01-05", "office visit", "visit", FALSE, "null")}

\* The bodies of PATCH /api/events/[id]: no field, each field alone, the
\* two fields that are not content together, and a null date; the summary,
\* the type and the notes sent are the stored ones
PatchBodies ==
    {EventBody(given, "", "2024-02-02", "office visit", "visit", TRUE, "null") :
        given \in {{}, {"date"}, {"summary"}, {"type"}, {"userNotes"},
                   {"isPrimary"}, {"duplicateOfId"}, {"isPrimary", "duplicateOfId"}}}
    \cup {EventBody({"date"}, "", "null", "", "", FALSE, "null")}

\* classify route.ts:516-520, createMany of one extracted event: userEdited
\* is the column's default
LlmCreateEvent ==
    /\ eventsCreated < MaxEvents
    /\ LET id == eventsCreated + 1
       IN  /\ eventTable' = eventTable \cup
                  {EventRow(id, "doc1", "2024-01-05", "office visit", "visit",
                            FALSE, "llm", FALSE, "null")}
           /\ contentPatched' = Append(contentPatched, FALSE)
    /\ eventsCreated' = eventsCreated + 1
    /\ UNCHANGED <<pc, eventResponse>>
    /\ UNCHANGED <<clusterVars, classifyVars, selectVars, datesVars, duplicateVars,
                   llmVars, processVars, otherThanEvents>>

PostEvent ==
    /\ eventsCreated < MaxEvents
    /\ \E body \in PostBodies :
          LET r == EventsPOST(body, eventTable, eventsCreated + 1)
          IN  /\ eventResponse' = r.response
              /\ eventTable' = r.eventTable
              /\ IF r.response.status = 200
                 THEN /\ eventsCreated' = eventsCreated + 1
                      /\ contentPatched' = Append(contentPatched, FALSE)
                 ELSE UNCHANGED <<eventsCreated, contentPatched>>
    /\ UNCHANGED pc
    /\ UNCHANGED <<clusterVars, classifyVars, selectVars, datesVars, duplicateVars,
                   llmVars, processVars, otherThanEvents>>

PatchEvent ==
    /\ \E id \in 1..MaxEvents, body \in PatchBodies, throws \in BOOLEAN :
          LET r == EventPATCH(id, body, eventTable, throws)
          IN  /\ eventResponse' = r.response
              /\ eventTable' = r.eventTable
              /\ contentPatched' =
                    IF r.response.status = 200
                       /\ body.given \cap {"date", "summary", "type", "userNotes"} # {}
                    THEN [contentPatched EXCEPT ![id] = TRUE]
                    ELSE contentPatched
    /\ UNCHANGED <<pc, eventsCreated>>
    /\ UNCHANGED <<clusterVars, classifyVars, selectVars, datesVars, duplicateVars,
                   llmVars, processVars, otherThanEvents>>

DeleteEvent ==
    /\ \E id \in 1..MaxEvents, throws \in BOOLEAN :
          LET r == EventDELETE(id, eventTable, throws)
          IN  /\ eventResponse' = r.response
              /\ eventTable' = r.eventTable
    /\ UNCHANGED <<pc, eventsCreated, contentPatched>>
    /\ UNCHANGED <<clusterVars, classifyVars, selectVars, datesVars, duplicateVars,
                   llmVars, processVars, otherThanEvents>>

NextEvents == LlmCreateEvent \/ PostEvent \/ PatchEvent \/ DeleteEvent

SpecEvents == Init /\ [][NextEvents]_vars

\* C29: after any sequence of event operations an existing event's
\* userEdited is true if and only if some earlier successful PATCH on it
\* carried at least one of date, summary, type or userNotes.
C29_UserEditedIffContentPatched ==
    \A r \in eventTable : r.userEdited <=> contentPatched[r.id]

\* An edited event next to one that a successful PATCH has made primary
\* without editing its content
C29_Witness ==
    /\ \E r \in eventTable : r.userEdited /\ r.date = "2024-01-05"
    /\ \E r \in eventTable : r.isPrimary /\ ~r.userEdited

(***************************************************************************)
(* The batch loop of POST /api/classify, call by call                      *)
(* (src/app/api/duplicates/[pageId]/route.ts:456-468)                      *)
(***************************************************************************)

\* route.ts:462, enrichedPages.slice(i, i + BATCH_SIZE), as the 1-based
\* positions of its pages
BatchSlice(i, n) == {k \in 1..n : k > i /\ k <= i + BATCH_SIZE}

\* The loop going on as soon as one call of the batch has settled
AnySettled(batch, done) == batch \cap done # {}

\* route.ts:464-466, await Promise.all over promises that never reject
\* (classifyPage catches, route.ts:301 and 343): the loop goes on when
\* every call of the batch has settled
AllSettled(batch, done) == batch \subseteq done

(***************************************************************************)
(* Specification of the batch loop: a request with some pages arrives,     *)
(* each batch starts its calls together, the calls settle in any order,    *)
(* and the loop goes on when the await ends.                               *)
(***************************************************************************)
MaxBatchPages == 11

\* The handler reaches the loop with the pages of the request
BatchRequest ==
    /\ batchPc = "idle"
    /\ \E n \in 1..MaxBatchPages : batchPages' = n
    /\ batchPc' = "loop"
    /\ UNCHANGED <<pc, batchIndex, inFlight, settled, batchDone>>
    /\ UNCHANGED <<clusterVars, classifyVars, selectVars, datesVars, duplicateVars,
                   llmVars, processVars, otherThanBatch>>

\* route.ts:461-466: the loop test holds; batch.map runs each classifyPage
\* up to its await of model.generateContent, so the calls of the batch
\* start together
StartBatch ==
    /\ batchPc = "loop"
    /\ batchIndex < batchPages
    /\ inFlight' = inFlight \cup BatchSlice(batchIndex, batchPages)
    /\ batchPc' = "await"
    /\ UNCHANGED <<pc, batchPages, batchIndex, settled, batchDone>>
    /\ UNCHANGED <<clusterVars, classifyVars, selectVars, datesVars, duplicateVars,
                   llmVars, processVars, otherThanBatch>>

\* route.ts:303 and 343-351: the call of one page resolves or rejects, and
\* its classifyPage promise resolves
SettleCall ==
    /\ \E k \in inFlight :
          /\ inFlight' = inFlight \ {k}
          /\ settled' = settled \cup {k}
    /\ UNCHANGED <<pc, batchPages, batchPc, batchIndex, batchDone>>
    /\ UNCHANGED <<clusterVars, classifyVars, selectVars, datesVars, duplicateVars,
                   llmVars, processVars, otherThanBatch>>

\* route.ts:461 and 464-467: the await ends, the results are pushed and i
\* is raised
ResumeBatch ==
    /\ batchPc = "await"
    /\ AllSettled(BatchSlice(batchIndex, batchPages), settled)
    /\ batchDone' = batchDone \cup BatchSlice(batchIndex, batchPages)
    /\ batchIndex' = batchIndex + BATCH_SIZE
    /\ batchPc' = "loop"
    /\ UNCHANGED <<pc, batchPages, inFlight, settled>>
    /\ UNCHANGED <<clusterVars, classifyVars, selectVars, datesVars, duplicateVars,
                   llmVars, processVars, otherThanBatch>>

\* route.ts:461 and 470: the loop test fails
EndBatches ==
    /\ batchPc = "loop"
    /\ batchIndex >= batchPages
    /\ batchPc' = "done"
    /\ UNCHANGED <<pc, batchPages, batchIndex, inFlight, settled, batchDone>>
    /\ UNCHANGED <<clusterVars, classifyVars, selectVars, datesVars, duplicateVars,
                   llmVars, processVars, otherThanBatch>>

NextBatch == BatchRequest \/ StartBatch \/ SettleCall \/ ResumeBatch \/ EndBatches

SpecBatch == Init /\ [][NextBatch]_vars

\* The batch of page k, counted from 0
C30_BatchOf(k) == (k - 1) \div BATCH_SIZE

\* C30: during one POST /api/classify request at most 5 LLM calls are in
\* flight at any moment, and no call for a page of a later batch has
\* started before every call of the preceding batch has settled.
C30_AtMostFiveInFlight ==
    /\ Cardinality(inFlight) <= 5
    /\ \A k \in inFlight \cup settled :
          \A j \in 1..batchPages :
              C30_BatchOf(j) < C30_BatchOf(k) => j \in settled

\* The second batch is running with five calls in flight, and the request
\* has a third batch to come
C30_Witness ==
    /\ Cardinality(inFlight) = 5
    /\ \A k \in inFlight : C30_BatchOf(k) = 1
    /\ batchPages > 10
====
